---- MODULE Spec2Model ----
(***************************************************************************)
(* NEO Explorer core: entity construction (core/models.py), the            *)
(* indexing / linking / query engine (core/database.py) and the filter     *)
(* predicates (utils/filters.py).                                          *)
(*                                                                         *)
(* Representation.                                                         *)
(*   - A Python str is a sequence of one-character strings, so that        *)
(*     str.upper, str.lower and str.strip work character by character.     *)
(*   - Optional[T] is a sequence of length 0 (None) or 1 (the value).      *)
(*   - A float is an integer, diameters counted in tenths of a kilometre;  *)
(*     NaN is a token on which every ordering comparison is false.         *)
(*   - A datetime is <<day, hour>>; its date() is the day.                 *)
(*   - Objects are identified by their position in the input list, the     *)
(*     reference None by 0.                                                *)
(*   - A dict is the sequence of its items in insertion order.             *)
(***************************************************************************)
EXTENDS Integers, Sequences, FiniteSets, TLC

\* Bounds of the model: the longest input lists.
MaxNeos == 2
MaxApproaches == 2

---------------------------------------------------------------------------
\* Optional values.
None == <<>>
Some(v) == <<v>>
Val(o) == o[1]

\* float('nan')
NaN == 999
\* float('inf')
Inf == 1000

isnan(x) == x = NaN

\* Python's float comparisons: false as soon as one side is NaN.
FloatLt(x, y) == ~isnan(x) /\ ~isnan(y) /\ x < y
FloatLe(x, y) == ~isnan(x) /\ ~isnan(y) /\ x <= y

---------------------------------------------------------------------------
\* Strings.
UpperChar(c) ==
    CASE c = "a" -> "A" [] c = "b" -> "B" [] c = "c" -> "C"
      [] c = "x" -> "X" [] c = "y" -> "Y" [] OTHER -> c

LowerChar(c) ==
    CASE c = "A" -> "a" [] c = "B" -> "b" [] c = "C" -> "c"
      [] c = "X" -> "x" [] c = "Y" -> "y" [] OTHER -> c

upper(s) == [i \in 1..Len(s) |-> UpperChar(s[i])]
lower(s) == [i \in 1..Len(s) |-> LowerChar(s[i])]

SetMin(S) == CHOOSE m \in S : \A k \in S : m <= k
SetMax(S) == CHOOSE m \in S : \A k \in S : m >= k

strip(s) ==
    LET keep == {i \in 1..Len(s) : s[i] # " "}
    IN  IF keep = {} THEN <<>> ELSE SubSeq(s, SetMin(keep), SetMax(keep))

\* `needle in haystack` for two str.
Contains(haystack, needle) ==
    \E i \in 0..(Len(haystack) - Len(needle)) :
        \A k \in 1..Len(needle) : haystack[i + k] = needle[k]

\* Truthiness of an Optional[str]: None and "" are falsy.
StrTruthy(o) == o # None /\ Val(o) # <<>>

---------------------------------------------------------------------------
\* Entities (core/models.py).

\* NearEarthObject.__post_init__: the stored object, or the error raised.
NearEarthObject(designation, name, diameter, hazardous) ==
    IF designation = <<>> \/ strip(designation) = <<>>
    THEN [err |-> "ValueError"]
    ELSE IF diameter # None /\ FloatLt(Val(diameter), 0)
    THEN [err |-> "ValueError"]
    ELSE [err |-> "",
          designation |-> upper(strip(designation)),
          name |-> IF StrTruthy(name)
                   THEN (IF strip(Val(name)) = <<>> THEN None
                                                    ELSE Some(strip(Val(name))))
                   ELSE name,
          diameter |-> IF diameter # None /\ isnan(Val(diameter)) THEN None
                                                                  ELSE diameter,
          hazardous |-> hazardous,
          approaches |-> <<>>]

\* NearEarthObject.has_diameter
has_diameter(neo) == neo.diameter # None /\ ~isnan(Val(neo.diameter))

\* CloseApproach.__post_init__: the stored approach, or the error raised.
CloseApproach(designation, time, distance, velocity) ==
    IF designation = <<>> \/ strip(designation) = <<>>
    THEN [err |-> "ValueError"]
    ELSE IF isnan(distance) \/ isnan(velocity)
    THEN [err |-> "ValueError"]
    ELSE [err |-> "",
          designation |-> upper(strip(designation)),
          time |-> time,
          distance |-> distance,
          velocity |-> velocity,
          neo |-> 0]

\* CloseApproach.date
ApproachDate(approach) == approach.time[1]

---------------------------------------------------------------------------
\* Inputs handed to the entity constructors by the loader.
NeoInputs ==
    { [designation |-> <<"a">>,      name |-> Some(<<"x", "y">>),
       diameter |-> Some(1),   hazardous |-> TRUE],
      [designation |-> <<" ", "A">>, name |-> Some(<<"X", "Y">>),
       diameter |-> None,      hazardous |-> FALSE],
      [designation |-> <<"b">>,      name |-> None,
       diameter |-> Some(2),   hazardous |-> FALSE],
      [designation |-> <<"B", " ">>, name |-> Some(<<"x", "y", " ">>),
       diameter |-> Some(NaN), hazardous |-> TRUE],
      [designation |-> <<"x", "y">>, name |-> Some(<<" ">>),
       diameter |-> Some(0),   hazardous |-> FALSE] }

ApproachInputs ==
    { [designation |-> <<"a">>,      time |-> <<1, 0>>, distance |-> 1, velocity |-> 2],
      [designation |-> <<"A", " ">>, time |-> <<2, 0>>, distance |-> 2, velocity |-> 1],
      [designation |-> <<"b">>,      time |-> <<1, 1>>, distance |-> 1, velocity |-> 1],
      [designation |-> <<"c">>,      time |-> <<2, 1>>, distance |-> 0, velocity |-> 2] }

SeqsUpTo(S, n) == UNION {[1..k -> S] : k \in 0..n}

MakeNeo(r) == NearEarthObject(r.designation, r.name, r.diameter, r.hazardous)
MakeApproach(r) == CloseApproach(r.designation, r.time, r.distance, r.velocity)

---------------------------------------------------------------------------
\* dict, as the sequence of its items [k, v] in insertion order.
DictHas(d, k) == \E i \in 1..Len(d) : d[i].k = k

DictPos(d, k) == CHOOSE i \in 1..Len(d) : d[i].k = k

\* d.get(k, default)
DictGet(d, k, default) == IF DictHas(d, k) THEN d[DictPos(d, k)].v ELSE default

\* d[k] = v: a key already present keeps its place and takes the new value.
DictSet(d, k, v) ==
    IF DictHas(d, k)
    THEN [d EXCEPT ![DictPos(d, k)] = [k |-> k, v |-> v]]
    ELSE Append(d, [k |-> k, v |-> v])

\* defaultdict(list): d[k].append(x)
DictAppend(d, k, x) == DictSet(d, k, Append(DictGet(d, k, <<>>), x))

---------------------------------------------------------------------------
\* State.
VARIABLES
    neos,                   \* the NearEarthObject instances, in input order
    approaches,             \* the CloseApproach instances, in input order
    built,                  \* a NEODatabase has been constructed over them
    designation_to_neo,     \* NEODatabase._designation_to_neo
    name_to_neo,            \* NEODatabase._name_to_neo
    date_index,             \* NEODatabase._date_index
    hazardous_index,        \* NEODatabase._hazardous_index
    diameter_range_index,   \* NEODatabase._diameter_range_index
    stats,                  \* NEODatabase._stats
    gen,                    \* the generator object returned by query()
    lim,                    \* the generator object returned by limit()
    gen2,                   \* the generator object returned by another query()
    loader,                 \* the DataLoader and how far its load has come
    ret                     \* the last call and what it returned

vars == <<neos, approaches, built, designation_to_neo, name_to_neo, date_index,
          hazardous_index, diameter_range_index, stats, gen, lim, gen2, loader, ret>>

entities == <<neos, approaches>>
indexes == <<designation_to_neo, name_to_neo, date_index, hazardous_index,
             diameter_range_index, stats>>

\* FilterFactory.create_filters: its ten keyword arguments, all defaulting to None.
NoCriteria ==
    [date |-> None, start_date |-> None, end_date |-> None,
     distance_min |-> None, distance_max |-> None,
     velocity_min |-> None, velocity_max |-> None,
     diameter_min |-> None, diameter_max |-> None,
     hazardous |-> None]

\* No generator object is alive.
NoGen == [status |-> "none", criteria |-> NoCriteria, filters |-> None,
          pos |-> 0, out |-> <<>>]

\* No limit generator is alive.
NoLim == [status |-> "none", n |-> None, source |-> "none", pos |-> 0,
          count |-> 0, out |-> <<>>]

\* DataLoader.__init__: the statistics of a loader that has read nothing.
EmptyLoaderStats == [neos_loaded |-> 0, approaches_loaded |-> 0,
                     validation_errors |-> 0, parsing_errors |-> 0]

\* The entities were handed over; no loader is at work.
NoLoader == [strict_mode |-> FALSE, validate_data |-> TRUE, status |-> "none",
             neo_rows |-> 0, approach_rows |-> 0, stats |-> EmptyLoaderStats]

\* NEODatabase.__init__: the fields before the indexing passes.
EmptyStats == [total_neos |-> 0, total_approaches |-> 0, hazardous_neos |-> 0,
               named_neos |-> 0, neos_with_diameter |-> 0]

\* The loader's two lists: every entity went through its constructor.
Init ==
    /\ \E rawNeos \in SeqsUpTo(NeoInputs, MaxNeos) :
         /\ \A i \in 1..Len(rawNeos) : MakeNeo(rawNeos[i]).err = ""
         /\ neos = [i \in 1..Len(rawNeos) |-> MakeNeo(rawNeos[i])]
    /\ \E rawApproaches \in SeqsUpTo(ApproachInputs, MaxApproaches) :
         /\ \A i \in 1..Len(rawApproaches) : MakeApproach(rawApproaches[i]).err = ""
         /\ approaches = [i \in 1..Len(rawApproaches) |-> MakeApproach(rawApproaches[i])]
    /\ built = FALSE
    /\ designation_to_neo = <<>>
    /\ name_to_neo = <<>>
    /\ date_index = <<>>
    /\ hazardous_index = <<>>
    /\ diameter_range_index = <<>>
    /\ stats = EmptyStats
    /\ gen = NoGen
    /\ lim = NoLim
    /\ gen2 = NoGen
    /\ loader = NoLoader
    /\ ret = [op |-> "load", arg |-> <<>>, val |-> 0]

---------------------------------------------------------------------------
\* NEODatabase construction (core/database.py).

\* BuildDesignationIndex with the name index's `if neo.name:` guard put on
\* the designation index too.
RECURSIVE BuildDesignationIndex_OnlyNamed(_, _)
BuildDesignationIndex_OnlyNamed(ns, n) ==
    IF n = 0 THEN <<>>
    ELSE IF StrTruthy(ns[n].name)
         THEN DictSet(BuildDesignationIndex_OnlyNamed(ns, n - 1), ns[n].designation, n)
         ELSE BuildDesignationIndex_OnlyNamed(ns, n - 1)

\* _build_indexes, first loop: designation -> neo, after the first n objects.
RECURSIVE BuildDesignationIndex(_, _)
BuildDesignationIndex(ns, n) ==
    IF n = 0 THEN <<>>
    ELSE DictSet(BuildDesignationIndex(ns, n - 1), ns[n].designation, n)

\* BuildNameIndex that keeps the first object of a name.
RECURSIVE BuildNameIndex_FirstWins(_, _)
BuildNameIndex_FirstWins(ns, n) ==
    IF n = 0 THEN <<>>
    ELSE LET d == BuildNameIndex_FirstWins(ns, n - 1)
         IN  IF StrTruthy(ns[n].name) /\ ~DictHas(d, Val(ns[n].name))
             THEN DictSet(d, Val(ns[n].name), n)
             ELSE d

\* _build_indexes, first loop: name -> neo, after the first n objects.
RECURSIVE BuildNameIndex(_, _)
BuildNameIndex(ns, n) ==
    IF n = 0 THEN <<>>
    ELSE IF StrTruthy(ns[n].name)
         THEN DictSet(BuildNameIndex(ns, n - 1), Val(ns[n].name), n)
         ELSE BuildNameIndex(ns, n - 1)

\* _build_indexes, second loop: date -> approaches, after the first n.
RECURSIVE BuildDateIndex(_, _)
BuildDateIndex(as, n) ==
    IF n = 0 THEN <<>>
    ELSE DictAppend(BuildDateIndex(as, n - 1), ApproachDate(as[n]), n)

\* _get_diameter_range (breakpoints 0.1, 1.0, 10.0 km; diameters in tenths)
DiameterBreak1 == 1
DiameterBreak2 == 10
DiameterBreak3 == 100

_get_diameter_range(diameter) ==
    IF FloatLt(diameter, DiameterBreak1) THEN <<0, DiameterBreak1>>
    ELSE IF FloatLt(diameter, DiameterBreak2) THEN <<DiameterBreak1, DiameterBreak2>>
    ELSE IF FloatLt(diameter, DiameterBreak3) THEN <<DiameterBreak2, DiameterBreak3>>
    ELSE <<DiameterBreak3, Inf>>

\* LinkStep as a scan of the objects without a break: the approach is
\* appended to every object that has its designation.
LinkStep_AppendsToEverySameDesignation(st, a) ==
    LET neo == DictGet(st.index, st.approaches[a].designation, 0)
    IN  IF neo # 0
        THEN [st EXCEPT
                !.approaches[a].neo = neo,
                !.neos = [j \in 1..Len(st.neos) |->
                            IF st.neos[j].designation = st.approaches[a].designation
                            THEN [st.neos[j] EXCEPT !.approaches = Append(@, a)]
                            ELSE st.neos[j]],
                !.hazardous = DictAppend(@, st.neos[neo].hazardous, a),
                !.diameter = IF has_diameter(st.neos[neo])
                             THEN DictAppend(@, _get_diameter_range(Val(st.neos[neo].diameter)), a)
                             ELSE @]
        ELSE st

\* LinkStep that files an approach without object under hazardous False.
LinkStep_UnlinkedUnderFalse(st, a) ==
    LET neo == DictGet(st.index, st.approaches[a].designation, 0)
    IN  IF neo # 0
        THEN [st EXCEPT
                !.approaches[a].neo = neo,
                !.neos[neo].approaches = Append(@, a),
                !.hazardous = DictAppend(@, st.neos[neo].hazardous, a),
                !.diameter = IF has_diameter(st.neos[neo])
                             THEN DictAppend(@, _get_diameter_range(Val(st.neos[neo].diameter)), a)
                             ELSE @]
        ELSE [st EXCEPT !.hazardous = DictAppend(@, FALSE, a)]

\* LinkStep that finds the object by a scan of the input from its start and
\* takes the first of the designation, while the index holds the last.
LinkStep_FirstMatchScan(st, a) ==
    LET same == {j \in 1..Len(st.neos) :
                    st.neos[j].designation = st.approaches[a].designation}
        neo == IF same = {} THEN 0 ELSE SetMin(same)
    IN  IF neo # 0
        THEN [st EXCEPT
                !.approaches[a].neo = neo,
                !.neos[neo].approaches = Append(@, a),
                !.hazardous = DictAppend(@, st.neos[neo].hazardous, a),
                !.diameter = IF has_diameter(st.neos[neo])
                             THEN DictAppend(@, _get_diameter_range(Val(st.neos[neo].diameter)), a)
                             ELSE @]
        ELSE st

\* _link_data, one iteration of the loop, on approach number a.
LinkStep(st, a) ==
    LET neo == DictGet(st.index, st.approaches[a].designation, 0)
    IN  IF neo # 0
        THEN [st EXCEPT
                !.approaches[a].neo = neo,
                !.neos[neo].approaches = Append(@, a),
                !.hazardous = DictAppend(@, st.neos[neo].hazardous, a),
                !.diameter = IF has_diameter(st.neos[neo])
                             THEN DictAppend(@, _get_diameter_range(Val(st.neos[neo].diameter)), a)
                             ELSE @]
        ELSE st

\* _link_data: the loop over the first n approaches.
RECURSIVE _link_data(_, _)
_link_data(st, n) ==
    IF n = 0 THEN st ELSE LinkStep(_link_data(st, n - 1), n)

\* _compute_statistics
_compute_statistics(ns, as) ==
    [total_neos |-> Len(ns),
     total_approaches |-> Len(as),
     hazardous_neos |-> Cardinality({i \in 1..Len(ns) : ns[i].hazardous}),
     named_neos |-> Cardinality({i \in 1..Len(ns) : StrTruthy(ns[i].name)}),
     neos_with_diameter |-> Cardinality({i \in 1..Len(ns) : has_diameter(ns[i])})]

\* NEODatabase.__init__
Construct ==
    /\ ~built
    /\ LET index == BuildDesignationIndex(neos, Len(neos))
           linked == _link_data([index |-> index, neos |-> neos,
                                 approaches |-> approaches,
                                 hazardous |-> <<>>, diameter |-> <<>>],
                                Len(approaches))
       IN  /\ designation_to_neo' = index
           /\ name_to_neo' = BuildNameIndex(neos, Len(neos))
           /\ date_index' = BuildDateIndex(approaches, Len(approaches))
           /\ neos' = linked.neos
           /\ approaches' = linked.approaches
           /\ hazardous_index' = linked.hazardous
           /\ diameter_range_index' = linked.diameter
           /\ stats' = _compute_statistics(linked.neos, linked.approaches)
    /\ built' = TRUE
    /\ ret' = [op |-> "__init__", arg |-> <<>>, val |-> 0]
    /\ UNCHANGED <<gen, lim, gen2, loader>>


---------------------------------------------------------------------------
\* Lookups (core/database.py).

\* NEODatabase.get_neo_by_designation
get_neo_by_designation(index, designation) ==
    IF designation = <<>> THEN 0
    ELSE DictGet(index, strip(upper(designation)), 0)

\* NameScan with the .lower() calls left out.
RECURSIVE NameScan_NoCaseFold(_, _, _)
NameScan_NoCaseFold(index, name, i) ==
    IF i > Len(index) THEN 0
    ELSE IF index[i].k = strip(name) THEN index[i].v
    ELSE NameScan_NoCaseFold(index, name, i + 1)

\* get_neo_by_name, the case-insensitive loop over _name_to_neo.items(),
\* from item number i on.
RECURSIVE NameScan(_, _, _)
NameScan(index, name, i) ==
    IF i > Len(index) THEN 0
    ELSE IF lower(index[i].k) = strip(lower(name)) THEN index[i].v
    ELSE NameScan(index, name, i + 1)

\* get_neo_by_name without its exact-match tier.
get_neo_by_name_ScanOnly(index, name) ==
    IF name = <<>> THEN 0 ELSE NameScan(index, name, 1)

\* NEODatabase.get_neo_by_name
get_neo_by_name(index, name) ==
    IF name = <<>> THEN 0
    ELSE LET neo == DictGet(index, strip(name), 0)
         IN  IF neo # 0 THEN neo ELSE NameScan(index, name, 1)

\* The strings the callers look up.
DesignationQueries ==
    { <<"a">>, <<" ", "A", " ">>, <<"b">>, <<"x", "y">>, <<"x">>, <<"c">>, <<>> }

NameQueries ==
    { <<"x", "y">>, <<"X", "Y">>, <<"X", "y">>, <<" ", "X", "Y", " ">>,
      <<"b">>, <<"x">>, <<" ">>, <<>> }

\* The lookups are taken between queries (no generator alive): they read the
\* two primary indexes only, which no step of a generator writes.
GetNeoByDesignation ==
    /\ built
    /\ gen.status = "none"
    /\ \E q \in DesignationQueries :
         ret' = [op |-> "get_neo_by_designation", arg |-> q,
                 val |-> get_neo_by_designation(designation_to_neo, q)]
    /\ UNCHANGED <<entities, built, indexes, lim, gen, gen2, loader>>

GetNeoByName ==
    /\ built
    /\ gen.status = "none"
    /\ \E q \in NameQueries :
         ret' = [op |-> "get_neo_by_name", arg |-> q,
                 val |-> get_neo_by_name(name_to_neo, q)]
    /\ UNCHANGED <<entities, built, indexes, lim, gen, gen2, loader>>

---------------------------------------------------------------------------
\* Filters (utils/filters.py).

\* What evaluating an expression gives: a value, or an exception.
Returns(v) == [exc |-> FALSE, v |-> v]
Raises == [exc |-> TRUE, v |-> FALSE]

\* ApplyOp with operator.le where operator.ge is meant.
ApplyOp_GeIsLe(op, attribute, value) ==
    CASE op = "eq" -> Returns(attribute # None /\ Val(attribute) = value)
      [] op = "ge" -> IF attribute = None THEN Raises
                      ELSE Returns(FloatLe(Val(attribute), value))
      [] op = "le" -> IF attribute = None THEN Raises
                      ELSE Returns(FloatLe(Val(attribute), value))

\* operator.eq / operator.ge / operator.le applied to (attribute, reference).
\* The attribute is None or a value; ordering None against a number is a
\* TypeError, equality with None is just false.
ApplyOp(op, attribute, value) ==
    CASE op = "eq" -> Returns(attribute # None /\ Val(attribute) = value)
      [] op = "ge" -> IF attribute = None THEN Raises
                      ELSE Returns(FloatLe(value, Val(attribute)))
      [] op = "le" -> IF attribute = None THEN Raises
                      ELSE Returns(FloatLe(Val(attribute), value))

\* DateFilter.get
DateFilter_get(ns, approach) == Some(ApproachDate(approach))

\* DistanceFilter.get
DistanceFilter_get(ns, approach) == Some(approach.distance)

\* VelocityFilter.get
VelocityFilter_get(ns, approach) == Some(approach.velocity)

\* DiameterFilter.get
DiameterFilter_get(ns, approach) ==
    IF approach.neo # 0 /\ has_diameter(ns[approach.neo])
    THEN ns[approach.neo].diameter
    ELSE None

\* HazardousFilter.get
HazardousFilter_get(ns, approach) ==
    IF approach.neo # 0 THEN Some(ns[approach.neo].hazardous) ELSE Some(FALSE)

\* self.get(approach), dispatched on the filter's class.
FilterGet(f, ns, approach) ==
    CASE f.cls = "DateFilter" -> DateFilter_get(ns, approach)
      [] f.cls = "DistanceFilter" -> DistanceFilter_get(ns, approach)
      [] f.cls = "VelocityFilter" -> VelocityFilter_get(ns, approach)
      [] f.cls = "DiameterFilter" -> DiameterFilter_get(ns, approach)
      [] f.cls = "HazardousFilter" -> HazardousFilter_get(ns, approach)

\* AttributeFilter.__call__ without the try/except around the comparison.
AttributeFilter_call_NoExcept(f, ns, approach) ==
    ApplyOp(f.op, FilterGet(f, ns, approach), f.value)

\* AttributeFilter.__call__: the reference values are dates, floats and
\* bools, never str, so the date-string branch is not taken; an exception of
\* the comparison is caught and answered with False.
AttributeFilter_call(f, ns, approach) ==
    LET r == ApplyOp(f.op, FilterGet(f, ns, approach), f.value)
    IN  IF r.exc THEN Returns(FALSE) ELSE r

\* AttributeFilter.__init__
Filter(cls, op, value) == [cls |-> cls, op |-> op, value |-> value]

\* AddFilter with `if <criterion>:` where `if <criterion> is not None:` is
\* meant: 0 and False count as not supplied.
AddFilter_Truthy(filters, supplied, key, f) ==
    IF supplied /\ (IF f.cls = "HazardousFilter" THEN f.value ELSE f.value # 0)
    THEN DictSet(filters, key, f)
    ELSE filters

\* One `if <criterion>: filters[key] = ...` of create_filters.
AddFilter(filters, supplied, key, f) ==
    IF supplied THEN DictSet(filters, key, f) ELSE filters

\* FilterFactory.create_filters: the dict held by the CompositeFilter.  A
\* datetime.date is always truthy, so `if date:` is `date is not None`.
create_filters(c) ==
    LET f1 == AddFilter(<<>>, c.date # None, "date",
                        Filter("DateFilter", "eq", Val(c.date)))
        f2 == AddFilter(f1, c.start_date # None, "start_date",
                        Filter("DateFilter", "ge", Val(c.start_date)))
        f3 == AddFilter(f2, c.end_date # None, "end_date",
                        Filter("DateFilter", "le", Val(c.end_date)))
        f4 == AddFilter(f3, c.distance_min # None, "distance_min",
                        Filter("DistanceFilter", "ge", Val(c.distance_min)))
        f5 == AddFilter(f4, c.distance_max # None, "distance_max",
                        Filter("DistanceFilter", "le", Val(c.distance_max)))
        f6 == AddFilter(f5, c.velocity_min # None, "velocity_min",
                        Filter("VelocityFilter", "ge", Val(c.velocity_min)))
        f7 == AddFilter(f6, c.velocity_max # None, "velocity_max",
                        Filter("VelocityFilter", "le", Val(c.velocity_max)))
        f8 == AddFilter(f7, c.diameter_min # None, "diameter_min",
                        Filter("DiameterFilter", "ge", Val(c.diameter_min)))
        f9 == AddFilter(f8, c.diameter_max # None, "diameter_max",
                        Filter("DiameterFilter", "le", Val(c.diameter_max)))
    IN  AddFilter(f9, c.hazardous # None, "hazardous",
                  Filter("HazardousFilter", "eq", Val(c.hazardous)))

\* CompositeFilter.__call__ with any(...) in the place of all(...).
RECURSIVE CompositeFilter_call_Any(_, _, _, _)
CompositeFilter_call_Any(filters, i, ns, approach) ==
    IF i > Len(filters) THEN Returns(i = 1)
    ELSE LET r == AttributeFilter_call(filters[i].v, ns, approach)
         IN  IF r.exc \/ r.v THEN r
             ELSE CompositeFilter_call_Any(filters, i + 1, ns, approach)

\* CompositeFilter.__call__: all(...) over self.filters.values(), from item
\* number i on; all() stops at the first False.
RECURSIVE CompositeFilter_call(_, _, _, _)
CompositeFilter_call(filters, i, ns, approach) ==
    IF i > Len(filters) THEN Returns(TRUE)
    ELSE LET r == AttributeFilter_call(filters[i].v, ns, approach)
         IN  IF r.exc \/ ~r.v THEN r
             ELSE CompositeFilter_call(filters, i + 1, ns, approach)


---------------------------------------------------------------------------
\* query (core/database.py).

\* The criteria the callers hand to the factory.
FilterInputs ==
    { NoCriteria,
      [NoCriteria EXCEPT !.date = Some(1)],
      [NoCriteria EXCEPT !.start_date = Some(2)],
      [NoCriteria EXCEPT !.end_date = Some(1)],
      [NoCriteria EXCEPT !.start_date = Some(2), !.end_date = Some(1)],
      [NoCriteria EXCEPT !.distance_min = Some(1)],
      [NoCriteria EXCEPT !.distance_max = Some(1)],
      [NoCriteria EXCEPT !.distance_max = Some(0)],
      [NoCriteria EXCEPT !.velocity_min = Some(2)],
      [NoCriteria EXCEPT !.velocity_max = Some(1)],
      [NoCriteria EXCEPT !.diameter_min = Some(0)],
      [NoCriteria EXCEPT !.diameter_min = Some(2)],
      [NoCriteria EXCEPT !.diameter_max = Some(1)],
      [NoCriteria EXCEPT !.diameter_min = Some(2), !.diameter_max = Some(1)],
      [NoCriteria EXCEPT !.hazardous = Some(TRUE)],
      [NoCriteria EXCEPT !.hazardous = Some(FALSE)],
      [NoCriteria EXCEPT !.hazardous = Some(TRUE), !.distance_max = Some(1)],
      [NoCriteria EXCEPT !.hazardous = Some(FALSE), !.date = Some(2)],
      [NoCriteria EXCEPT !.distance_min = Some(2), !.distance_max = Some(1)],
      [NoCriteria EXCEPT !.velocity_min = Some(2), !.velocity_max = Some(1)],
      [NoCriteria EXCEPT !.date = Some(1), !.start_date = Some(2)],
      [NoCriteria EXCEPT !.date = Some(2), !.end_date = Some(1)] }

\* A caller's own predicate, a plain function in the dict given to query:
\* `lambda a: a.neo.hazardous`, or `lambda a: a.neo.diameter >= value`.
\* Reading an attribute of None is an AttributeError, ordering None against a
\* number a TypeError.
Predicate_call(f, ns, approach) ==
    IF approach.neo = 0 THEN Raises
    ELSE IF f.op = "neo.hazardous" THEN Returns(ns[approach.neo].hazardous)
    ELSE IF ns[approach.neo].diameter = None THEN Raises
    ELSE Returns(FloatLe(f.value, Val(ns[approach.neo].diameter)))

\* filter_func(approach) in query: whatever callable the dict holds.
FilterFunc(f, ns, approach) ==
    IF f.cls = "function" THEN Predicate_call(f, ns, approach)
    ELSE AttributeFilter_call(f, ns, approach)

\* `all(filter_func(approach) for filter_func in filters.values())` in
\* query, from item number i on.
RECURSIVE QueryAll(_, _, _, _)
QueryAll(filters, i, ns, approach) ==
    IF i > Len(filters) THEN Returns(TRUE)
    ELSE LET r == FilterFunc(filters[i].v, ns, approach)
         IN  IF r.exc \/ ~r.v THEN r
             ELSE QueryAll(filters, i + 1, ns, approach)

\* QueryLoop leaving the loop at the first approach the filters reject.
QueryLoop_StopsAtFirstReject(filters, ns, as, i) ==
    IF i > Len(as) THEN [kind |-> "stop", at |-> i]
    ELSE LET r == QueryAll(filters, 1, ns, as[i])
         IN  IF r.exc THEN [kind |-> "raise", at |-> i]
             ELSE IF r.v THEN [kind |-> "yield", at |-> i]
             ELSE [kind |-> "stop", at |-> Len(as) + 1]

\* The `for approach in self._approaches` loop of query, resumed at approach
\* number i: where it yields next, stops, or lets an exception out.
RECURSIVE QueryLoop(_, _, _, _)
QueryLoop(filters, ns, as, i) ==
    IF i > Len(as) THEN [kind |-> "stop", at |-> i]
    ELSE LET r == QueryAll(filters, 1, ns, as[i])
         IN  IF r.exc THEN [kind |-> "raise", at |-> i]
             ELSE IF r.v THEN [kind |-> "yield", at |-> i]
             ELSE QueryLoop(filters, ns, as, i + 1)

\* QueryResume over one iterator that all the generators of the database
\* share: each resumes where the one that is furthest has come to.
QueryResume_SharedCursor(g, ns, as) ==
    LET pos == IF gen.pos > gen2.pos THEN gen.pos ELSE gen2.pos
    IN  IF g.filters = None \/ Val(g.filters) = <<>>
        THEN IF pos <= Len(as) THEN [kind |-> "yield", at |-> pos]
                               ELSE [kind |-> "stop", at |-> pos]
        ELSE QueryLoop(Val(g.filters), ns, as, pos)

\* The body of query up to its next yield: `if not filters` sends it to
\* `yield from self._approaches`, anything else to the filtering loop.
QueryResume(g, ns, as) ==
    IF g.filters = None \/ Val(g.filters) = <<>>
    THEN IF g.pos <= Len(as) THEN [kind |-> "yield", at |-> g.pos]
                             ELSE [kind |-> "stop", at |-> g.pos]
    ELSE QueryLoop(Val(g.filters), ns, as, g.pos)

\* database.query(filters): the call only creates the generator.  filters is
\* None, or the dict of a CompositeFilter made by the factory.
StartQuery ==
    /\ built
    /\ \/ gen' = [status |-> "running", criteria |-> NoCriteria,
                  filters |-> None, pos |-> 1, out |-> <<>>]
       \/ \E c \in FilterInputs :
            gen' = [status |-> "running", criteria |-> c,
                    filters |-> Some(create_filters(c)), pos |-> 1, out |-> <<>>]
    /\ ret' = [op |-> "query", arg |-> <<>>, val |-> 0]
    /\ UNCHANGED <<entities, built, indexes, lim, gen2, loader>>

\* next(generator)
QueryNext ==
    /\ gen.status = "running"
    /\ LET step == QueryResume(gen, neos, approaches)
       IN  /\ gen' = CASE step.kind = "yield" ->
                            [gen EXCEPT !.pos = step.at + 1,
                                        !.out = Append(@, step.at)]
                       [] step.kind = "stop" ->
                            [gen EXCEPT !.pos = step.at, !.status = "done"]
                       [] step.kind = "raise" ->
                            [gen EXCEPT !.pos = step.at, !.status = "raised"]
           /\ ret' = [op |-> "next", arg |-> <<>>,
                      val |-> IF step.kind = "yield" THEN step.at ELSE 0]
    /\ UNCHANGED <<entities, built, indexes, lim, gen2, loader>>

\* The caller drops the generator, exhausted or not.
Discard ==
    /\ gen.status # "none"
    /\ gen' = NoGen
    /\ ret' = [op |-> "del", arg |-> <<>>, val |-> 0]
    /\ UNCHANGED <<entities, built, indexes, lim, gen2, loader>>

---------------------------------------------------------------------------
Next ==
    \/ Construct
    \/ GetNeoByDesignation
    \/ GetNeoByName
    \/ StartQuery
    \/ QueryNext
    \/ Discard

Spec == Init /\ [][Next]_vars


---------------------------------------------------------------------------
\* Vocabulary of the properties.

Range(seq) == {seq[i] : i \in 1..Len(seq)}

Occurrences(seq, x) == Cardinality({i \in 1..Len(seq) : seq[i] = x})

Increasing(seq) == \A i, k \in 1..Len(seq) : i < k => seq[i] < seq[k]

NeoIds == 1..Len(neos)
ApproachIds == 1..Len(approaches)

\* The approach's designation is the designation of some input object.
Matched(a) == \E j \in NeoIds : neos[j].designation = approaches[a].designation

HasDuplicateDesignation ==
    \E i, j \in NeoIds : i # j /\ neos[i].designation = neos[j].designation

\* The composite filter the factory builds from the criteria accepts approach a.
Accepts(c, a) == CompositeFilter_call(create_filters(c), 1, neos, approaches[a]).v

\* The approaches among the first n that the composite filter accepts, in input order.
AcceptedUpTo(c, n) ==
    LET Test(a) == Accepts(c, a)
    IN  SelectSeq([a \in 1..n |-> a], Test)

---------------------------------------------------------------------------
\* C1: query yields exactly the approaches on which the composite filter
\* built by the factory evaluates true, each once, in input order, and the
\* whole collection when there is no filter or an empty filter set; no
\* evaluation error ends it.  Stated on every prefix the caller has pulled:
\* after the loop has passed the first pos-1 approaches, the yielded items
\* are the accepted ones among them, and an exhausted query has passed all.
C1_QueryYieldsExactlyAccepted ==
    gen.status # "none" =>
        /\ gen.status \in {"running", "done"}
        /\ gen.status = "done" => gen.pos = Len(approaches) + 1
        /\ gen.out = AcceptedUpTo(gen.criteria, gen.pos - 1)
        /\ (gen.filters = None \/ Val(gen.filters) = <<>>)
              => gen.out = [a \in 1..(gen.pos - 1) |-> a]

\* A filtered query ran to its end, kept one approach and dropped another.
C1_Witness ==
    /\ gen.status = "done"
    /\ gen.filters # None /\ Val(gen.filters) # <<>>
    /\ gen.out # <<>>
    /\ Len(gen.out) < Len(approaches)

\* C2: linking completeness: after construction every approach whose
\* designation equals an input object's designation has neo set to that
\* object, and that object's approaches hold it exactly once, in input order.
C2_LinkingCompleteness ==
    built =>
        \A a \in ApproachIds : \A j \in NeoIds :
            neos[j].designation = approaches[a].designation =>
                /\ approaches[a].neo = j
                /\ Occurrences(neos[j].approaches, a) = 1
                /\ Increasing(neos[j].approaches)

\* C3: linking exclusivity: the union of the objects' approaches collections
\* is the set of approaches whose designation matched an object, and no
\* approach is in the collections of two different objects.
C3_LinkingExclusivity ==
    built =>
        /\ UNION {Range(neos[j].approaches) : j \in NeoIds}
              = {a \in ApproachIds : Matched(a)}
        /\ \A j, k \in NeoIds :
              j # k => Range(neos[j].approaches) \cap Range(neos[k].approaches) = {}

\* A database with two objects, a linked approach and an unlinked one.
C3_Witness ==
    /\ built
    /\ Len(neos) >= 2
    /\ \E a \in ApproachIds : Matched(a) /\ approaches[a].neo # 0
    /\ \E a \in ApproachIds : ~Matched(a)

\* C4: an approach has neo set iff its designation matched an object at the
\* linking pass; an unmatched approach does not stop construction (the
\* constructor call leaves a database), and its neo stays absent through
\* every later lookup and query.
C4_NeoSetIffMatched ==
    /\ ret.op = "__init__" => built
    /\ ~built => \A a \in ApproachIds : approaches[a].neo = 0
    /\ built => \A a \in ApproachIds : (approaches[a].neo # 0) <=> Matched(a)

\* After construction a query has yielded an approach that matches no object.
C4_Witness ==
    /\ built
    /\ gen.status = "done"
    /\ \E i \in 1..Len(gen.out) :
          ~Matched(gen.out[i]) /\ approaches[gen.out[i]].neo = 0
    /\ \E a \in ApproachIds : approaches[a].neo # 0

\* C5: constructing a database from objects of which two have the same
\* normalized designation fails: no database is produced.
C5_DuplicateDesignationRejected ==
    HasDuplicateDesignation => ~built


\* q is the designation d up to letter case and surrounding whitespace.
SameDesignation(q, d) == lower(strip(q)) = lower(strip(d))

\* C6: get_by_designation round-trips: looking an input object up by its
\* designation, in any letter case and with any surrounding whitespace,
\* returns that exact object; a designation no input object has returns
\* not-found; a substring of a designation is not a match.
C6_GetByDesignationRoundTrip ==
    ret.op = "get_neo_by_designation" =>
        /\ \A j \in NeoIds :
              SameDesignation(ret.arg, neos[j].designation) => ret.val = j
        /\ (\A j \in NeoIds : ~SameDesignation(ret.arg, neos[j].designation))
              => ret.val = 0

\* The stored names (None and "" are no name).
Named(j) == StrTruthy(neos[j].name)
NameOf(j) == Val(neos[j].name)

\* Some stored name is the trimmed query, character for character.
ExactName(q) == \E j \in NeoIds : Named(j) /\ NameOf(j) = strip(q)

\* The objects whose name is the trimmed query up to letter case.
CaseInsensitive(q) == {j \in NeoIds : Named(j) /\ lower(NameOf(j)) = lower(strip(q))}

\* C7: exact-match precedence of get_by_name: when two objects have names
\* that differ only in letter case and the trimmed query is exactly the name
\* of one of them, the result carries exactly that name (it is that object
\* when no other object shares the name) and is never the other one,
\* whatever the input order.
C7_ExactNamePrecedence ==
    ret.op = "get_neo_by_name" =>
        \A i, j \in NeoIds :
            ( /\ Named(i) /\ Named(j)
              /\ NameOf(i) # NameOf(j)
              /\ lower(NameOf(i)) = lower(NameOf(j))
              /\ strip(ret.arg) = NameOf(i) )
            => /\ ret.val # 0
               /\ ret.val # j
               /\ NameOf(ret.val) = NameOf(i)
               /\ (\A k \in NeoIds : (Named(k) /\ NameOf(k) = NameOf(i)) => k = i)
                     => ret.val = i

\* The exactly named object comes after its case twin in the input, and is returned.
C7_Witness ==
    /\ ret.op = "get_neo_by_name"
    /\ \E i, j \in NeoIds :
          /\ j < i
          /\ Named(i) /\ Named(j)
          /\ NameOf(i) # NameOf(j)
          /\ lower(NameOf(i)) = lower(NameOf(j))
          /\ strip(ret.arg) = NameOf(i)
          /\ ret.val = i

\* The name the case-insensitive scan meets first: the name index is in
\* order of each name's first appearance in the input.
FirstCaseInsensitiveName(q) == NameOf(SetMin(CaseInsensitive(q)))

HazardousQuery == gen.status # "none" /\ gen.filters # None /\ gen.criteria.hazardous # None

\* The query is made with no filter, or with date, distance and velocity
\* criteria only.
PlainQuery ==
    /\ gen.status # "none"
    /\ gen.criteria.hazardous = None
    /\ gen.criteria.diameter_min = None /\ gen.criteria.diameter_max = None

\* C9: an approach whose designation matches no object is excluded from the
\* result of query under any hazardous-based filter, hazardous=true as well
\* as hazardous=false, and yet is yielded by a query with no filter or with
\* only date, distance and velocity filters that it satisfies.
C9_UnlinkedExcludedFromHazardous ==
    /\ HazardousQuery => \A i \in 1..Len(gen.out) : Matched(gen.out[i])
    /\ (PlainQuery /\ gen.status = "done") =>
          \A a \in ApproachIds :
              (~Matched(a) /\ Accepts(gen.criteria, a)) => a \in Range(gen.out)

\* The query is made with a diameter criterion.
DiameterQuery ==
    /\ gen.status # "none" /\ gen.filters # None
    /\ (gen.criteria.diameter_min # None \/ gen.criteria.diameter_max # None)

\* The approach has no linked object, or a linked object without diameter.
NoDiameter(a) == approaches[a].neo = 0 \/ neos[approaches[a].neo].diameter = None

\* The reference values tried on the diameter filters.
DiameterValues == {0, 1, 2}

---------------------------------------------------------------------------
\* What remains of the two designation properties on inputs whose
\* designations are pairwise distinct.

\* Linking is complete whenever no two input objects share a designation.
LinkingCompleteOnDistinctDesignations ==
    (built /\ ~HasDuplicateDesignation) =>
        \A a \in ApproachIds : \A j \in NeoIds :
            neos[j].designation = approaches[a].designation =>
                /\ approaches[a].neo = j
                /\ Occurrences(neos[j].approaches, a) = 1
                /\ Increasing(neos[j].approaches)

\* The designation lookup round-trips whenever no two input objects share a
\* designation.
RoundTripOnDistinctDesignations ==
    (ret.op = "get_neo_by_designation" /\ ~HasDuplicateDesignation) =>
        /\ \A j \in NeoIds :
              SameDesignation(ret.arg, neos[j].designation) => ret.val = j
        /\ (\A j \in NeoIds : ~SameDesignation(ret.arg, neos[j].designation))
              => ret.val = 0

\* An unlinked approach is left out by hazardous=true.
UnlinkedExcludedFromHazardousTrue ==
    (HazardousQuery /\ gen.criteria.hazardous = Some(TRUE)) =>
        \A i \in 1..Len(gen.out) : Matched(gen.out[i])

---------------------------------------------------------------------------
\* Direct calls on the filters and on the database, outside of query.

\* The permutations of 1..n, and the dict d with its items held in the
\* order p.
ItemOrders(n) ==
    {q \in [1..n -> 1..n] : \A i, k \in 1..n : i # k => q[i] # q[k]}

Reorder(d, p) == [i \in 1..Len(d) |-> d[p[i]]]

\* The caller holds no result: the database has just been constructed, or the
\* last result has been dropped.  The direct calls below are taken one at a
\* time from there; they write nothing but their result.
Idle == built /\ ret.op \in {"__init__", "del"}

\* The caller may call again while it holds a collection it has changed.
CanCall == Idle \/ (built /\ ret.op = "mutate")

\* What the same call with the same argument returned before the caller
\* changed that result, when this call follows such a change.
ReturnedBefore(op, arg) ==
    IF ret.op = "mutate" /\ ret.of = op /\ ret.arg = arg THEN Some(ret.before)
    ELSE None

\* The caller drops the result of a direct call.
Drop ==
    /\ built
    /\ ret.op \notin {"__init__", "del"}
    /\ ret' = [op |-> "del", arg |-> <<>>, val |-> 0]
    /\ UNCHANGED <<entities, built, indexes, lim, gen, gen2, loader>>

\* CompositeFilter(filters)(approach), for the filters of the factory held in
\* any order.
EvaluateComposite ==
    /\ Idle
    /\ \E c \in FilterInputs : \E p \in ItemOrders(Len(create_filters(c))) :
         \E a \in 1..Len(approaches) :
            LET fs == Reorder(create_filters(c), p)
            IN  ret' = [op |-> "CompositeFilter",
                        arg |-> [filters |-> fs, approach |-> a],
                        val |-> CompositeFilter_call(fs, 1, neos, approaches[a])]
    /\ UNCHANGED <<entities, built, indexes, lim, gen, gen2, loader>>

\* C11: a composite filter matches an approach iff every attribute filter it
\* contains matches it, in whatever order the filters are held; a composite
\* filter without filters matches every approach.
C11_CompositeIsConjunction ==
    ret.op = "CompositeFilter" =>
        LET fs == ret.arg.filters
            a == approaches[ret.arg.approach]
        IN  /\ ~ret.val.exc
            /\ ret.val.v = (\A i \in 1..Len(fs) : AttributeFilter_call(fs[i].v, neos, a).v)
            /\ \A p \in ItemOrders(Len(fs)) :
                  CompositeFilter_call(Reorder(fs, p), 1, neos, a) = ret.val
            /\ fs = <<>> => ret.val.v

\* A composite of two filters, of which the approach passes the first held
\* and fails the second, was evaluated.
C11_Witness ==
    /\ ret.op = "CompositeFilter"
    /\ Len(ret.arg.filters) = 2
    /\ AttributeFilter_call(ret.arg.filters[1].v, neos, approaches[ret.arg.approach]).v
    /\ ~AttributeFilter_call(ret.arg.filters[2].v, neos, approaches[ret.arg.approach]).v
    /\ ~ret.val.v

\* What the factory is to build for a criterion: class and comparison.
ExpectedFilters ==
    << [k |-> "date",         cls |-> "DateFilter",      op |-> "eq"],
       [k |-> "start_date",   cls |-> "DateFilter",      op |-> "ge"],
       [k |-> "end_date",     cls |-> "DateFilter",      op |-> "le"],
       [k |-> "distance_min", cls |-> "DistanceFilter",  op |-> "ge"],
       [k |-> "distance_max", cls |-> "DistanceFilter",  op |-> "le"],
       [k |-> "velocity_min", cls |-> "VelocityFilter",  op |-> "ge"],
       [k |-> "velocity_max", cls |-> "VelocityFilter",  op |-> "le"],
       [k |-> "diameter_min", cls |-> "DiameterFilter",  op |-> "ge"],
       [k |-> "diameter_max", cls |-> "DiameterFilter",  op |-> "le"],
       [k |-> "hazardous",    cls |-> "HazardousFilter", op |-> "eq"] >>

\* The filters of the dict d that sit under key k.
Under(d, k) == {i \in 1..Len(d) : d[i].k = k}

\* C12: the factory builds exactly one attribute filter for each supplied
\* criterion and none for an absent one, with equality for the exact date
\* and for hazardous, >= for the start date and the minimum bounds, <= for
\* the end date and the maximum bounds; hazardous=false and a bound of 0
\* are supplied values and get their filter.
C12_OneFilterPerSuppliedCriterion ==
    (gen.status # "none" /\ gen.filters # None) =>
        LET fs == Val(gen.filters)
        IN  /\ \A e \in Range(ExpectedFilters) :
                  IF gen.criteria[e.k] = None
                  THEN Under(fs, e.k) = {}
                  ELSE /\ Cardinality(Under(fs, e.k)) = 1
                       /\ \A i \in Under(fs, e.k) :
                             fs[i].v = [cls |-> e.cls, op |-> e.op,
                                        value |-> Val(gen.criteria[e.k])]
            /\ \A i \in 1..Len(fs) : \E e \in Range(ExpectedFilters) : fs[i].k = e.k

\* A query was made with a bound of 0, or with hazardous=false, and the
\* filter for it is there.
C12_Witness ==
    /\ gen.status # "none" /\ gen.filters # None
    /\ \/ gen.criteria.distance_max = Some(0) /\ Under(Val(gen.filters), "distance_max") # {}
       \/ gen.criteria.hazardous = Some(FALSE) /\ Under(Val(gen.filters), "hazardous") # {}

\* The criteria contradict themselves: a start date after the end date, a
\* minimum above its maximum, or an exact date outside the start/end range.
Above(lo, hi) == lo # None /\ hi # None /\ Val(lo) > Val(hi)

Contradictory(c) ==
    \/ Above(c.start_date, c.end_date)
    \/ Above(c.distance_min, c.distance_max)
    \/ Above(c.velocity_min, c.velocity_max)
    \/ Above(c.diameter_min, c.diameter_max)
    \/ Above(c.start_date, c.date)
    \/ Above(c.date, c.end_date)

\* C13: a self-contradictory filter combination makes query yield nothing,
\* for every database, and raises no error, neither when the filters are
\* built nor during the query.
C13_ContradictoryYieldsNothing ==
    (gen.status # "none" /\ gen.filters # None /\ Contradictory(gen.criteria)) =>
        /\ gen.status \in {"running", "done"}
        /\ gen.out = <<>>

\* A contradictory query ran to its end over approaches that each pass one
\* of its two filters.
C13_Witness ==
    /\ gen.status = "done" /\ gen.filters # None
    /\ Contradictory(gen.criteria)
    /\ approaches # <<>>
    /\ \A a \in ApproachIds : \E i \in 1..Len(Val(gen.filters)) :
          AttributeFilter_call(Val(gen.filters)[i].v, neos, approaches[a]).v

---------------------------------------------------------------------------
\* limit (utils/filters.py).

\* The values of n the callers pass: absent, negative, zero, positive.
Caps == {None, Some(-1), Some(0), Some(1), Some(2), Some(3)}

\* The criteria of the queries that limit is wrapped around.
LimitInputs ==
    { NoCriteria,
      [NoCriteria EXCEPT !.date = Some(1)],
      [NoCriteria EXCEPT !.distance_max = Some(1)] }

\* next() on the source of the limit generator l: a list iterator over the
\* approaches (iter() of a list starts at its first item and leaves the list
\* alone), or the query generator g, which is advanced.
PullSource(l, g, ns, as) ==
    IF l.source = "list"
    THEN IF l.pos <= Len(as) THEN [kind |-> "yield", at |-> l.pos]
                             ELSE [kind |-> "stop", at |-> l.pos]
    ELSE IF g.status = "running" THEN QueryResume(g, ns, as)
    ELSE [kind |-> "stop", at |-> g.pos]

\* The query generator after the source was asked for its next item.
Advance(g, step) ==
    IF g.status # "running" THEN g
    ELSE CASE step.kind = "yield" ->
                 [g EXCEPT !.pos = step.at + 1, !.out = Append(@, step.at)]
           [] step.kind = "stop" -> [g EXCEPT !.pos = step.at, !.status = "done"]
           [] step.kind = "raise" -> [g EXCEPT !.pos = step.at, !.status = "raised"]

\* limit breaking out of its loop only when count exceeds n.
limit_BreaksAfterN(l, step) ==
    LET count == IF l.status = "suspended" THEN l.count + 1 ELSE 0
        moved == [l EXCEPT !.pos = IF step.kind = "yield" THEN step.at + 1 ELSE @]
    IN  IF step.kind = "raise" THEN [moved EXCEPT !.status = "raised"]
        ELSE IF step.kind = "stop" THEN [moved EXCEPT !.status = "done"]
        ELSE IF l.n = None \/ Val(l.n) <= 0
        THEN [moved EXCEPT !.status = "suspended", !.out = Append(@, step.at)]
        ELSE IF count > Val(l.n)
        THEN [moved EXCEPT !.status = "done", !.count = count]
        ELSE [moved EXCEPT !.status = "suspended", !.count = count,
                           !.out = Append(@, step.at)]

\* The body of limit from where it is suspended to its next yield or its
\* end, given what the source answered (step).  `yield from iterator` when n
\* is None or n <= 0; otherwise the counting loop: count is 0 on entry and is
\* incremented when the generator is resumed after a yield, the item is
\* taken from the source before `count >= n` is tested.
limit(l, step) ==
    LET count == IF l.status = "suspended" THEN l.count + 1 ELSE 0
        moved == [l EXCEPT !.pos = IF step.kind = "yield" THEN step.at + 1 ELSE @]
    IN  IF step.kind = "raise" THEN [moved EXCEPT !.status = "raised"]
        ELSE IF step.kind = "stop" THEN [moved EXCEPT !.status = "done"]
        ELSE IF l.n = None \/ Val(l.n) <= 0
        THEN [moved EXCEPT !.status = "suspended", !.out = Append(@, step.at)]
        ELSE IF count >= Val(l.n)
        THEN [moved EXCEPT !.status = "done", !.count = count]
        ELSE [moved EXCEPT !.status = "suspended", !.count = count,
                           !.out = Append(@, step.at)]

\* limit(approaches, n) over the list of approaches: the call only creates
\* the generator.
StartLimitOverList ==
    /\ built /\ lim.status = "none" /\ gen.status = "none"
    /\ \E n \in Caps :
         lim' = [status |-> "created", n |-> n, source |-> "list", pos |-> 1,
                 count |-> 0, out |-> <<>>]
    /\ ret' = [op |-> "limit", arg |-> <<>>, val |-> 0]
    /\ UNCHANGED <<entities, built, indexes, gen, gen2, loader>>

\* limit(database.query(filters.filters), n): both generators are created,
\* neither has run.
StartLimitOverQuery ==
    /\ built /\ lim.status = "none" /\ gen.status = "none"
    /\ \E c \in LimitInputs : \E n \in Caps :
         /\ gen' = [status |-> "running", criteria |-> c,
                    filters |-> Some(create_filters(c)), pos |-> 1, out |-> <<>>]
         /\ lim' = [status |-> "created", n |-> n, source |-> "iter", pos |-> 0,
                    count |-> 0, out |-> <<>>]
    /\ ret' = [op |-> "limit", arg |-> <<>>, val |-> 0]
    /\ UNCHANGED <<entities, built, indexes, gen2, loader>>

\* next(limit generator), as list() does until it is exhausted.
LimitNext ==
    /\ lim.status \in {"created", "suspended"}
    /\ LET step == PullSource(lim, gen, neos, approaches)
           after == limit(lim, step)
       IN  /\ lim' = after
           /\ gen' = IF lim.source = "iter" THEN Advance(gen, step) ELSE gen
           /\ ret' = [op |-> "next", arg |-> <<>>,
                      val |-> IF after.status = "suspended" THEN step.at ELSE 0]
    /\ UNCHANGED <<entities, built, indexes, gen2, loader>>

\* The caller drops the limit generator and the source it wraps.
LimitDiscard ==
    /\ lim.status # "none"
    /\ lim' = NoLim
    /\ gen' = NoGen
    /\ ret' = [op |-> "del", arg |-> <<>>, val |-> 0]
    /\ UNCHANGED <<entities, built, indexes, gen2, loader>>

NextLimit ==
    \/ Construct
    \/ StartLimitOverList
    \/ StartLimitOverQuery
    \/ LimitNext
    \/ LimitDiscard

SpecLimit == Init /\ [][NextLimit]_vars

\* What the source of the limit generator holds, from its first item on.
SourceItems ==
    IF lim.source = "list" THEN [a \in ApproachIds |-> a]
    ELSE AcceptedUpTo(gen.criteria, Len(approaches))

\* The number of items limit is to yield from a source of that length.
Quota(n, len) == IF n # None /\ Val(n) > 0 /\ Val(n) < len THEN Val(n) ELSE len

\* C14: limit(source, cap) yields the first min(cap, len) items of the source
\* in order when cap is positive and the whole source when cap is zero,
\* negative or absent, for a list and for a single-pass generator: what it
\* has yielded is always a prefix of that, it is all of that once the limit
\* generator is exhausted, and no error ends it.
C14_LimitYieldsFirstCap ==
    lim.status # "none" =>
        LET expected == SubSeq(SourceItems, 1, Quota(lim.n, Len(SourceItems)))
        IN  /\ lim.status # "raised"
            /\ Len(lim.out) <= Len(expected)
            /\ lim.out = SubSeq(expected, 1, Len(lim.out))
            /\ lim.status = "done" => lim.out = expected

\* A limit of 1 over a query generator with two items has ended after the first.
C14_Witness ==
    /\ lim.status = "done" /\ lim.source = "iter" /\ lim.n = Some(1)
    /\ Len(SourceItems) = 2
    /\ lim.out = <<SourceItems[1]>>

---------------------------------------------------------------------------
\* query with a predicate of the caller's own.

\* The functions the callers put in the dict.
PredicateInputs ==
    { Filter("function", "neo.hazardous", 0),
      Filter("function", "neo.diameter >=", 1) }

\* database.query({"custom": function}): the call only creates the generator.
StartPredicateQuery ==
    /\ built
    /\ \E f \in PredicateInputs :
         gen' = [status |-> "running", criteria |-> NoCriteria,
                 filters |-> Some(<<[k |-> "custom", v |-> f]>>),
                 pos |-> 1, out |-> <<>>]
    /\ ret' = [op |-> "query", arg |-> <<>>, val |-> 0]
    /\ UNCHANGED <<entities, built, indexes, lim, gen2, loader>>

NextPredicate ==
    \/ Construct
    \/ StartPredicateQuery
    \/ QueryNext
    \/ Discard

SpecPredicate == Init /\ [][NextPredicate]_vars

\* The query is made with a function of the caller's.
PredicateQuery ==
    /\ gen.status # "none" /\ gen.filters # None
    /\ \E i \in 1..Len(Val(gen.filters)) : Val(gen.filters)[i].v.cls = "function"

\* The approaches on which the predicate of the query returns true.
PredicateAccepted ==
    LET Test(a) == LET r == Predicate_call(Val(gen.filters)[1].v, neos, approaches[a])
                   IN  ~r.exc /\ r.v
    IN  SelectSeq([a \in ApproachIds |-> a], Test)

\* C15: when the predicate given to query raises on an approach, the approach
\* is left out, the error does not reach the caller, and the query yields
\* every other approach the predicate accepts, in input order.
C15_RaisingPredicateSkipped ==
    PredicateQuery =>
        /\ gen.status # "raised"
        /\ gen.status = "done" => gen.out = PredicateAccepted

---------------------------------------------------------------------------
\* FilterFactory.create_custom_filter (utils/filters.py).

\* The keys of its `operators` dict.
OperatorNames == {"eq", "ne", "lt", "le", "gt", "ge"}

\* The keys and values of its `filter_classes` dict.
FilterClasses ==
    << [k |-> "date", v |-> "DateFilter"],
       [k |-> "distance", v |-> "DistanceFilter"],
       [k |-> "velocity", v |-> "VelocityFilter"],
       [k |-> "diameter", v |-> "DiameterFilter"],
       [k |-> "hazardous", v |-> "HazardousFilter"] >>

\* create_custom_filter: FilterError for a name that is in neither dict,
\* otherwise filter_class(op, value).
create_custom_filter(filter_type, operator_name, value) ==
    IF operator_name \notin OperatorNames
    THEN [err |-> "FilterError", filter |-> None]
    ELSE IF ~DictHas(FilterClasses, filter_type)
    THEN [err |-> "FilterError", filter |-> None]
    ELSE [err |-> "",
          filter |-> Some(Filter(DictGet(FilterClasses, filter_type, ""),
                                 operator_name, value))]

\* FilterFactory.create_custom_filter(filter_type, operator_name, value)
CreateCustomFilter ==
    /\ Idle
    /\ \E filter_type \in {"date", "distance", "velocity", "diameter", "hazardous", "size"} :
       \E operator_name \in OperatorNames \cup {"in"} :
       \E value \in IF filter_type = "hazardous" THEN {FALSE, TRUE} ELSE {1} :
          ret' = [op |-> "create_custom_filter",
                  arg |-> [filter_type |-> filter_type, operator_name |-> operator_name],
                  val |-> create_custom_filter(filter_type, operator_name, value)]
    /\ UNCHANGED <<entities, built, indexes, lim, gen, gen2, loader>>

\* C16: making an attribute filter on the hazardous flag with any operator
\* other than equality fails with a configuration error when the filter is
\* made; no such filter object is produced.
C16_HazardousNonEqualityRejected ==
    (/\ ret.op = "create_custom_filter"
     /\ ret.arg.filter_type = "hazardous"
     /\ ret.arg.operator_name \in {"ne", "lt", "le", "gt", "ge"})
    => ret.val.err = "FilterError" /\ ret.val.filter = None

---------------------------------------------------------------------------
\* search_neos (core/database.py).

\* `neo not in results`, negated: list membership is identity, then the
\* dataclass __eq__, which compares the objects field by field.
InResults(ns, results, j) ==
    \E i \in 1..Len(results) : results[i] = j \/ ns[results[i]] = ns[j]

\* The designation loop of search_neos from object number j on: the object
\* is appended first and `len(results) >= limit` is tested afterwards.
RECURSIVE SearchByDesignation(_, _, _, _, _)
SearchByDesignation(ns, query, limit_, j, results) ==
    IF j > Len(ns) THEN results
    ELSE IF Contains(lower(ns[j].designation), query)
    THEN LET appended == Append(results, j)
         IN  IF Len(appended) >= limit_ THEN appended
             ELSE SearchByDesignation(ns, query, limit_, j + 1, appended)
    ELSE SearchByDesignation(ns, query, limit_, j + 1, results)

\* The name loop of search_neos from object number j on.
RECURSIVE SearchByName(_, _, _, _, _)
SearchByName(ns, query, limit_, j, results) ==
    IF j > Len(ns) THEN results
    ELSE IF /\ StrTruthy(ns[j].name)
            /\ Contains(lower(Val(ns[j].name)), query)
            /\ ~InResults(ns, results, j)
    THEN LET appended == Append(results, j)
         IN  IF Len(appended) >= limit_ THEN appended
             ELSE SearchByName(ns, query, limit_, j + 1, appended)
    ELSE SearchByName(ns, query, limit_, j + 1, results)

\* NEODatabase.search_neos: the objects found, as positions in the input.
search_neos(ns, query, limit_) ==
    IF query = <<>> THEN <<>>
    ELSE LET q == strip(lower(query))
             by_designation == SearchByDesignation(ns, q, limit_, 1, <<>>)
         IN  IF Len(by_designation) < limit_
             THEN SearchByName(ns, q, limit_, 1, by_designation)
             ELSE by_designation

\* The query strings of the callers of search_neos.
SearchQueries ==
    { <<>>, <<" ">>, <<"a">>, <<"A", " ">>, <<"x">>, <<"Y">>, <<"b">>, <<"z">> }

\* The limits of the callers of search_neos.
SearchLimits == {0, 1, 2, 3}

\* database.search_neos(query, limit)
SearchNeos ==
    /\ Idle
    /\ \E query \in SearchQueries : \E limit_ \in SearchLimits :
          ret' = [op |-> "search_neos", arg |-> [query |-> query, limit |-> limit_],
                  val |-> search_neos(neos, query, limit_)]
    /\ UNCHANGED <<entities, built, indexes, lim, gen, gen2, loader>>

\* The objects whose designation contains the trimmed query up to letter
\* case, in input order.
DesignationMatches(q) ==
    LET Test(j) == Contains(lower(neos[j].designation), lower(strip(q)))
    IN  SelectSeq([j \in NeoIds |-> j], Test)

\* The objects whose name contains the trimmed query up to letter case and
\* whose designation does not, in input order.
NameOnlyMatches(q) ==
    LET Test(j) == /\ Named(j)
                   /\ Contains(lower(NameOf(j)), lower(strip(q)))
                   /\ ~Contains(lower(neos[j].designation), lower(strip(q)))
    IN  SelectSeq([j \in NeoIds |-> j], Test)

\* The first n items of a sequence, all of it when it is shorter.
FirstN(seq, n) == SubSeq(seq, 1, IF n < Len(seq) THEN n ELSE Len(seq))

\* C17: for every query string and every limit >= 0, search returns at most
\* limit objects, none of them twice: first the objects whose designation
\* contains the query case-insensitively, in input order, then, while fewer
\* than limit are collected, the objects whose name contains it and that were
\* not already matched, in input order.
C17_SearchBoundedAndOrdered ==
    ret.op = "search_neos" =>
        /\ Len(ret.val) <= ret.arg.limit
        /\ \A i, k \in 1..Len(ret.val) : i # k => ret.val[i] # ret.val[k]
        /\ ret.val = FirstN(DesignationMatches(ret.arg.query)
                               \o NameOnlyMatches(ret.arg.query), ret.arg.limit)

\* The same for a limit of at least 1, a query that is not empty and objects
\* that differ in some field.
SearchBoundedForPositiveLimit ==
    (/\ ret.op = "search_neos"
     /\ ret.arg.limit >= 1
     /\ ret.arg.query # <<>>
     /\ \A i, j \in NeoIds : i # j => neos[i] # neos[j])
    => /\ Len(ret.val) <= ret.arg.limit
       /\ \A i, k \in 1..Len(ret.val) : i # k => ret.val[i] # ret.val[k]
       /\ ret.val = FirstN(DesignationMatches(ret.arg.query)
                              \o NameOnlyMatches(ret.arg.query), ret.arg.limit)

\* A limit of 0 has been answered with an object.
SearchLimitZeroReturnsOne ==
    ret.op = "search_neos" /\ ret.arg.limit = 0 /\ Len(ret.val) = 1

---------------------------------------------------------------------------
\* get_closest_approaches, get_fastest_approaches, get_recent_approaches
\* (core/database.py).

\* datetime < datetime
TimeLt(s, t) == s[1] < t[1] \/ (s[1] = t[1] /\ s[2] < t[2])

\* The order sorted() puts two approaches in: `key=lambda x: x.distance`,
\* `key=lambda x: x.velocity, reverse=True`, `key=lambda x: x.time,
\* reverse=True`.  x goes strictly before y.
KeyBefore(by, x, y) ==
    CASE by = "distance" -> x.distance < y.distance
      [] by = "velocity" -> x.velocity > y.velocity
      [] by = "time" -> TimeLt(y.time, x.time)

\* sorted() that puts an item in front of the earlier items of equal key.
RECURSIVE sorted_TiesReversed(_, _, _)
sorted_TiesReversed(as, by, n) ==
    IF n = 0 THEN <<>>
    ELSE LET s == sorted_TiesReversed(as, by, n - 1)
             k == Cardinality({i \in 1..Len(s) : KeyBefore(by, as[s[i]], as[n])})
         IN  SubSeq(s, 1, k) \o <<n>> \o SubSeq(s, k + 1, Len(s))

\* sorted(self._approaches, key=..., reverse=...) of the first n approaches,
\* as positions in the input: a new list, stable with and without reverse, so
\* an item goes behind every earlier item that is not strictly after it.
RECURSIVE sorted(_, _, _)
sorted(as, by, n) ==
    IF n = 0 THEN <<>>
    ELSE LET s == sorted(as, by, n - 1)
             k == Cardinality({i \in 1..Len(s) : ~KeyBefore(by, as[n], as[s[i]])})
         IN  SubSeq(s, 1, k) \o <<n>> \o SubSeq(s, k + 1, Len(s))

\* seq[:limit]
Slice(seq, limit_) ==
    LET stop == IF limit_ < 0 THEN Len(seq) + limit_ ELSE limit_
    IN  SubSeq(seq, 1, IF stop < 0 THEN 0 ELSE IF stop > Len(seq) THEN Len(seq) ELSE stop)

\* The limits of the callers of the three operations.
SortLimits == {-1, 0, 1, 2, 3}

\* database.get_closest_approaches(limit)
GetClosestApproaches ==
    /\ Idle
    /\ \E limit_ \in SortLimits :
          ret' = [op |-> "get_closest_approaches", arg |-> [by |-> "distance", limit |-> limit_],
                  val |-> Slice(sorted(approaches, "distance", Len(approaches)), limit_)]
    /\ UNCHANGED <<entities, built, indexes, lim, gen, gen2, loader>>

\* database.get_fastest_approaches(limit)
GetFastestApproaches ==
    /\ Idle
    /\ \E limit_ \in SortLimits :
          ret' = [op |-> "get_fastest_approaches", arg |-> [by |-> "velocity", limit |-> limit_],
                  val |-> Slice(sorted(approaches, "velocity", Len(approaches)), limit_)]
    /\ UNCHANGED <<entities, built, indexes, lim, gen, gen2, loader>>

\* database.get_recent_approaches(limit)
GetRecentApproaches ==
    /\ Idle
    /\ \E limit_ \in SortLimits :
          ret' = [op |-> "get_recent_approaches", arg |-> [by |-> "time", limit |-> limit_],
                  val |-> Slice(sorted(approaches, "time", Len(approaches)), limit_)]
    /\ UNCHANGED <<entities, built, indexes, lim, gen, gen2, loader>>

SortOps == {"get_closest_approaches", "get_fastest_approaches", "get_recent_approaches"}

\* Approach a comes before approach b in the claimed order: by key, and by
\* input position among equal keys.
RankedBefore(by, a, b) ==
    \/ KeyBefore(by, approaches[a], approaches[b])
    \/ (~KeyBefore(by, approaches[b], approaches[a]) /\ a < b)

\* C18: for every limit >= 0, closest(limit), fastest(limit) and
\* recent(limit) return exactly min(limit, n) approaches, the head of all n
\* approaches ordered by ascending distance, descending velocity, descending
\* time, approaches of equal key in input order; the call leaves the stored
\* collection in its order.
C18_SortedHeadStable ==
    /\ [](ret.op \in SortOps /\ ret.arg.limit >= 0 =>
            /\ Len(ret.val) = (IF ret.arg.limit < Len(approaches) THEN ret.arg.limit
                                                               ELSE Len(approaches))
            /\ \A i, k \in 1..Len(ret.val) :
                  i < k => RankedBefore(ret.arg.by, ret.val[i], ret.val[k])
            /\ \A a \in ApproachIds \ Range(ret.val) : \A i \in 1..Len(ret.val) :
                  RankedBefore(ret.arg.by, ret.val[i], a))
    /\ [][ret'.op \in SortOps => approaches' = approaches]_vars

\* Two approaches of equal velocity have been returned by fastest, the
\* earlier in the input first.
C18_Witness ==
    /\ ret.op = "get_fastest_approaches" /\ Len(ret.val) = 2
    /\ approaches[ret.val[1]].velocity = approaches[ret.val[2]].velocity
    /\ ret.val[1] < ret.val[2]

---------------------------------------------------------------------------
\* query_hazardous (core/database.py).

\* NEODatabase.query_hazardous: self._hazardous_index.get(hazardous, []), the
\* list the index holds under the key, a new empty list when it holds none.
query_hazardous(index, hazardous) == DictGet(index, hazardous, <<>>)

\* database.query_hazardous(hazardous)
QueryHazardous ==
    /\ CanCall
    /\ \E hazardous \in {FALSE, TRUE} :
          ret' = [op |-> "query_hazardous", arg |-> [hazardous |-> hazardous],
                  val |-> query_hazardous(hazardous_index, hazardous),
                  shared |-> DictHas(hazardous_index, hazardous),
                  before |-> ReturnedBefore("query_hazardous", [hazardous |-> hazardous])]
    /\ UNCHANGED <<entities, built, indexes, lim, gen, gen2, loader>>

\* The approaches linked to an object with that hazardous flag, in input order.
LinkedWithFlag(flag) ==
    LET Test(a) == approaches[a].neo # 0 /\ neos[approaches[a].neo].hazardous = flag
    IN  SelectSeq([a \in ApproachIds |-> a], Test)

\* C19: query_hazardous(flag) returns, in input order, exactly the
\* approaches linked to an object whose hazardous flag is flag; an approach
\* without object is in neither result, no approach is in both, and the two
\* results together hold every linked approach exactly once.
C19_HazardousBucketsPartition ==
    ret.op = "query_hazardous" =>
        LET other == query_hazardous(hazardous_index, ~ret.arg.hazardous)
        IN  /\ ret.val = LinkedWithFlag(ret.arg.hazardous)
            /\ \A a \in ApproachIds :
                  approaches[a].neo = 0 => a \notin Range(ret.val) \cup Range(other)
            /\ Range(ret.val) \cap Range(other) = {}
            /\ \A a \in ApproachIds :
                  approaches[a].neo # 0 =>
                      Occurrences(ret.val, a) + Occurrences(other, a) = 1

\* query_hazardous(False) has returned an approach while another approach
\* has no object.
C19_Witness ==
    /\ ret.op = "query_hazardous" /\ ~ret.arg.hazardous
    /\ ret.val # <<>>
    /\ \E a \in ApproachIds : approaches[a].neo = 0

---------------------------------------------------------------------------
\* query_by_date, query_by_date_range, query_by_diameter_range
\* (core/database.py).

\* NEODatabase.query_by_date: self._date_index.get(target_date, []), the
\* list the index holds under the key, a new empty list when it holds none.
query_by_date(index, target_date) == DictGet(index, target_date, <<>>)

\* query_by_date_range with `start_date <= approach.date < end_date`.
query_by_date_range_EndExclusive(as, start_date, end_date) ==
    LET Test(a) == start_date <= ApproachDate(as[a]) /\ ApproachDate(as[a]) < end_date
    IN  SelectSeq([a \in 1..Len(as) |-> a], Test)

\* NEODatabase.query_by_date_range, run to its end: the approaches it yields.
query_by_date_range(as, start_date, end_date) ==
    LET Test(a) == start_date <= ApproachDate(as[a]) /\ ApproachDate(as[a]) <= end_date
    IN  SelectSeq([a \in 1..Len(as) |-> a], Test)

\* NEODatabase.query_by_diameter_range, run to its end: the approaches it yields.
query_by_diameter_range(ns, as, min_diameter, max_diameter) ==
    LET Test(a) == /\ as[a].neo # 0 /\ has_diameter(ns[as[a].neo])
                   /\ FloatLe(min_diameter, Val(ns[as[a].neo].diameter))
                   /\ FloatLe(Val(ns[as[a].neo].diameter), max_diameter)
    IN  SelectSeq([a \in 1..Len(as) |-> a], Test)

\* list(generator): the generator of query pulled until it stops or raises.
RECURSIVE ListQuery(_, _, _)
ListQuery(g, ns, as) ==
    IF g.status # "running" THEN g
    ELSE ListQuery(Advance(g, QueryResume(g, ns, as)), ns, as)

\* The dates and the diameters the callers ask for.
DateArgs == {1, 2, 3}
DiameterArgs == {0, 1, 2}

\* database.query_by_date(target_date)
QueryByDate ==
    /\ CanCall
    /\ \E target_date \in DateArgs :
          ret' = [op |-> "query_by_date", arg |-> [date |-> target_date],
                  val |-> query_by_date(date_index, target_date),
                  shared |-> DictHas(date_index, target_date),
                  before |-> ReturnedBefore("query_by_date", [date |-> target_date])]
    /\ UNCHANGED <<entities, built, indexes, lim, gen, gen2, loader>>

\* list(database.query_by_date_range(start_date, end_date))
QueryByDateRange ==
    /\ Idle
    /\ \E start_date \in DateArgs : \E end_date \in DateArgs :
          ret' = [op |-> "query_by_date_range",
                  arg |-> [start_date |-> start_date, end_date |-> end_date],
                  val |-> query_by_date_range(approaches, start_date, end_date)]
    /\ UNCHANGED <<entities, built, indexes, lim, gen, gen2, loader>>

\* list(database.query_by_diameter_range(min_diameter, max_diameter))
QueryByDiameterRange ==
    /\ Idle
    /\ \E min_diameter \in DiameterArgs : \E max_diameter \in DiameterArgs :
          ret' = [op |-> "query_by_diameter_range",
                  arg |-> [min_diameter |-> min_diameter, max_diameter |-> max_diameter],
                  val |-> query_by_diameter_range(neos, approaches, min_diameter, max_diameter)]
    /\ UNCHANGED <<entities, built, indexes, lim, gen, gen2, loader>>

\* list(database.query(FilterFactory.create_filters(...).filters)) on the
\* database as it is.
GenericQuery(c) ==
    ListQuery([status |-> "running", criteria |-> c,
               filters |-> Some(create_filters(c)), pos |-> 1, out |-> <<>>],
              neos, approaches)

\* C20: the direct query operations agree with the generic query:
\* query_by_date(d) returns the approaches of query with the exact date d in
\* the same order, query_by_date_range(s, e) those of query with start date s
\* and end date e, query_by_diameter_range(min, max) those of query with
\* diameter_min and diameter_max.
C20_DirectQueriesAgreeWithQuery ==
    /\ ret.op = "query_by_date" =>
          LET g == GenericQuery([NoCriteria EXCEPT !.date = Some(ret.arg.date)])
          IN  g.status = "done" /\ ret.val = g.out
    /\ ret.op = "query_by_date_range" =>
          LET g == GenericQuery([NoCriteria EXCEPT
                                    !.start_date = Some(ret.arg.start_date),
                                    !.end_date = Some(ret.arg.end_date)])
          IN  g.status = "done" /\ ret.val = g.out
    /\ ret.op = "query_by_diameter_range" =>
          LET g == GenericQuery([NoCriteria EXCEPT
                                    !.diameter_min = Some(ret.arg.min_diameter),
                                    !.diameter_max = Some(ret.arg.max_diameter)])
          IN  g.status = "done" /\ ret.val = g.out

\* query_by_date_range has returned an approach dated on the end date, and
\* the database holds an approach without diameter.
C20_Witness ==
    /\ ret.op = "query_by_date_range"
    /\ \E i \in 1..Len(ret.val) : ApproachDate(approaches[ret.val[i]]) = ret.arg.end_date
    /\ \E a \in ApproachIds : DiameterFilter_get(neos, approaches[a]) = None

---------------------------------------------------------------------------
\* get_statistics, get_all_neos, get_all_approaches (core/database.py), and
\* a caller that changes the collection it was handed.

\* NEODatabase.get_statistics handing out self._stats itself.
get_statistics_NoCopy(s) == [val |-> s, shared |-> TRUE]

\* NEODatabase.get_statistics: self._stats.copy(), a dict of the caller's own.
get_statistics(s) == [val |-> s, shared |-> FALSE]

\* NEODatabase.get_all_neos: self._neos.copy(), a new list of the same objects.
get_all_neos(ns) == [val |-> [j \in 1..Len(ns) |-> j], shared |-> FALSE]

\* NEODatabase.get_all_approaches: self._approaches.copy()
get_all_approaches(as) == [val |-> [a \in 1..Len(as) |-> a], shared |-> FALSE]

\* database.get_statistics()
GetStatistics ==
    /\ CanCall
    /\ LET r == get_statistics(stats)
       IN  ret' = [op |-> "get_statistics", arg |-> <<>>, val |-> r.val,
                   shared |-> r.shared,
                   before |-> ReturnedBefore("get_statistics", <<>>)]
    /\ UNCHANGED <<entities, built, indexes, lim, gen, gen2, loader>>

\* database.get_all_neos()
GetAllNeos ==
    /\ CanCall
    /\ LET r == get_all_neos(neos)
       IN  ret' = [op |-> "get_all_neos", arg |-> <<>>, val |-> r.val,
                   shared |-> r.shared,
                   before |-> ReturnedBefore("get_all_neos", <<>>)]
    /\ UNCHANGED <<entities, built, indexes, lim, gen, gen2, loader>>

\* database.get_all_approaches()
GetAllApproaches ==
    /\ CanCall
    /\ LET r == get_all_approaches(approaches)
       IN  ret' = [op |-> "get_all_approaches", arg |-> <<>>, val |-> r.val,
                   shared |-> r.shared,
                   before |-> ReturnedBefore("get_all_approaches", <<>>)]
    /\ UNCHANGED <<entities, built, indexes, lim, gen, gen2, loader>>

\* The calls whose result is a collection the caller can change.
CollectionOps ==
    {"get_statistics", "get_all_neos", "get_all_approaches", "query_by_date",
     "query_hazardous"}

\* The two changes a caller makes: to a dict `d['total_neos'] += 1` and
\* `d['hazardous_neos'] = -1`; to a list `.append(x)` of an object of its own
\* (0) and `.pop()`, which fails on an empty list.
Changed(op, val, change) ==
    IF op = "get_statistics"
    THEN IF change = "grow" THEN [val EXCEPT !.total_neos = @ + 1]
                            ELSE [val EXCEPT !.hazardous_neos = -1]
    ELSE IF change = "grow" THEN Append(val, 0)
    ELSE IF val = <<>> THEN val
    ELSE SubSeq(val, 1, Len(val) - 1)

\* The indexes and the statistics are as the constructor left them.
AsConstructed ==
    /\ date_index = BuildDateIndex(approaches, Len(approaches))
    /\ hazardous_index =
          _link_data([index |-> designation_to_neo,
                      neos |-> [j \in 1..Len(neos) |-> [neos[j] EXCEPT !.approaches = <<>>]],
                      approaches |-> approaches,
                      hazardous |-> <<>>, diameter |-> <<>>],
                     Len(approaches)).hazardous
    /\ stats = _compute_statistics(neos, approaches)

\* The caller changes the collection it holds.  A collection that is an
\* object of the database is changed for the database as well.
CallerMutates ==
    /\ built /\ ret.op \in CollectionOps
    /\ AsConstructed
    /\ \E change \in {"grow", "shrink"} :
         LET new == Changed(ret.op, ret.val, change)
         IN  /\ new # ret.val
             /\ ret' = [op |-> "mutate", of |-> ret.op, arg |-> ret.arg,
                        before |-> ret.val, val |-> new, shared |-> ret.shared]
             /\ date_index' = IF ret.shared /\ ret.op = "query_by_date"
                              THEN DictSet(date_index, ret.arg.date, new)
                              ELSE date_index
             /\ hazardous_index' = IF ret.shared /\ ret.op = "query_hazardous"
                                   THEN DictSet(hazardous_index, ret.arg.hazardous, new)
                                   ELSE hazardous_index
             /\ stats' = IF ret.shared /\ ret.op = "get_statistics" THEN new ELSE stats
    /\ UNCHANGED <<entities, built, designation_to_neo, name_to_neo,
                   diameter_range_index, lim, gen, gen2, loader>>

NextShared ==
    \/ Construct
    \/ Drop
    \/ GetStatistics
    \/ GetAllNeos
    \/ GetAllApproaches
    \/ QueryByDate
    \/ QueryHazardous
    \/ CallerMutates

SpecShared == Init /\ [][NextShared]_vars

\* C21: statistics() returns the number of input objects, the number of
\* input approaches, linked or not, and the numbers of input objects that are
\* hazardous, that have a name, that have a diameter; every call after any
\* sequence of operations returns these values, and a change the caller made
\* to the mapping of an earlier call does not show in a later call.
C21_StatisticsSnapshot ==
    ret.op = "get_statistics" =>
        /\ ret.val.total_neos = Len(neos)
        /\ ret.val.total_approaches = Len(approaches)
        /\ ret.val.hazardous_neos = Cardinality({j \in NeoIds : neos[j].hazardous})
        /\ ret.val.named_neos = Cardinality({j \in NeoIds : Named(j)})
        /\ ret.val.neos_with_diameter =
              Cardinality({j \in NeoIds : neos[j].diameter # None})
        /\ ret.before # None => ret.val = Val(ret.before)

\* statistics() has been called again after the caller changed the mapping
\* of the call before, on a database with an unlinked approach and an object
\* without name.
C21_Witness ==
    /\ ret.op = "get_statistics" /\ ret.before # None
    /\ \E a \in ApproachIds : approaches[a].neo = 0
    /\ \E j \in NeoIds : ~Named(j)

---------------------------------------------------------------------------
\* Two generators of query on one database.

\* The criteria of the two queries.
PairInputs == { NoCriteria, [NoCriteria EXCEPT !.distance_max = Some(1)] }

\* g1 = database.query(...); g2 = database.query(...): two calls, two
\* generator objects, neither has run.
StartTwoQueries ==
    /\ built /\ gen.status = "none" /\ gen2.status = "none"
    /\ \E c1 \in PairInputs : \E c2 \in PairInputs :
         /\ gen' = [status |-> "running", criteria |-> c1,
                    filters |-> Some(create_filters(c1)), pos |-> 1, out |-> <<>>]
         /\ gen2' = [status |-> "running", criteria |-> c2,
                     filters |-> Some(create_filters(c2)), pos |-> 1, out |-> <<>>]
    /\ ret' = [op |-> "query", arg |-> <<>>, val |-> 0]
    /\ UNCHANGED <<entities, built, indexes, lim, loader>>

\* next(g2)
QueryNext2 ==
    /\ gen2.status = "running"
    /\ LET step == QueryResume(gen2, neos, approaches)
       IN  /\ gen2' = Advance(gen2, step)
           /\ ret' = [op |-> "next", arg |-> <<>>,
                      val |-> IF step.kind = "yield" THEN step.at ELSE 0]
    /\ UNCHANGED <<entities, built, indexes, lim, gen, loader>>

\* The caller drops g2, exhausted or not.
Discard2 ==
    /\ gen2.status # "none"
    /\ gen2' = NoGen
    /\ ret' = [op |-> "del", arg |-> <<>>, val |-> 0]
    /\ UNCHANGED <<entities, built, indexes, lim, gen, loader>>

NextPair ==
    \/ Construct
    \/ StartTwoQueries
    \/ QueryNext
    \/ QueryNext2
    \/ Discard
    \/ Discard2

SpecPair == Init /\ [][NextPair]_vars

\* What generator g has yielded is what its own query accepts among the
\* approaches it has passed, from the first approach on, and when it is
\* exhausted it has passed them all.
OwnResult(g) ==
    g.status # "none" =>
        /\ g.status \in {"running", "done"}
        /\ g.out = AcceptedUpTo(g.criteria, g.pos - 1)
        /\ g.status = "done" => g.out = AcceptedUpTo(g.criteria, Len(approaches))

\* C22: query is lazy and restartable: two sequences from the same database,
\* pulled in any interleaving or abandoned after any number of items, each
\* yield their own full matching result in input order from the start;
\* pulling or abandoning a sequence changes no database state.
C22_GeneratorsIndependent ==
    /\ [](OwnResult(gen) /\ OwnResult(gen2))
    /\ [][(gen' # gen \/ gen2' # gen2) => UNCHANGED <<entities, built, indexes, loader>>]_vars

\* The first generator is exhausted with two items while the second, of the
\* same query, has yielded one.
C22_Witness ==
    /\ gen.status = "done" /\ Len(gen.out) = 2
    /\ gen2.status = "running" /\ Len(gen2.out) = 1
    /\ gen2.criteria = gen.criteria

---------------------------------------------------------------------------
\* The constructors of the entities called on arguments of any kind
\* (core/models.py).

\* The arguments the callers give to NearEarthObject(...).
RawNeoInputs ==
    NeoInputs \cup
    { [designation |-> <<>>,           name |-> None, diameter |-> None, hazardous |-> FALSE],
      [designation |-> <<" ", " ">>,   name |-> None, diameter |-> None, hazardous |-> FALSE],
      [designation |-> <<" ", "a", "B", " ">>, name |-> Some(<<" ", "x", " ">>),
       diameter |-> Some(0), hazardous |-> TRUE],
      [designation |-> <<"a">>,        name |-> Some(<<>>), diameter |-> None, hazardous |-> FALSE],
      [designation |-> <<"a">>,        name |-> Some(<<" ", " ">>), diameter |-> None, hazardous |-> FALSE],
      [designation |-> <<"a">>,        name |-> None, diameter |-> Some(-1), hazardous |-> FALSE] }

\* The arguments the callers give to CloseApproach(...).
RawApproachInputs ==
    ApproachInputs \cup
    { [designation |-> <<>>,         time |-> <<1, 0>>, distance |-> 1, velocity |-> 1],
      [designation |-> <<" ">>,      time |-> <<1, 0>>, distance |-> 1, velocity |-> 1],
      [designation |-> <<" ", "a", "B", " ">>, time |-> <<1, 0>>, distance |-> 0, velocity |-> 0],
      [designation |-> <<"a">>,      time |-> <<1, 0>>, distance |-> -1, velocity |-> 1],
      [designation |-> <<"a">>,      time |-> <<1, 0>>, distance |-> 1, velocity |-> -1],
      [designation |-> <<"a">>,      time |-> <<1, 0>>, distance |-> NaN, velocity |-> 1],
      [designation |-> <<"a">>,      time |-> <<1, 0>>, distance |-> 1, velocity |-> NaN] }

\* NearEarthObject(designation, name, diameter, hazardous)
NewNearEarthObject ==
    /\ Idle
    /\ \E raw \in RawNeoInputs :
          ret' = [op |-> "NearEarthObject", arg |-> raw, val |-> MakeNeo(raw)]
    /\ UNCHANGED <<entities, built, indexes, lim, gen, gen2, loader>>

\* CloseApproach(designation, time, distance, velocity)
NewCloseApproach ==
    /\ Idle
    /\ \E raw \in RawApproachInputs :
          ret' = [op |-> "CloseApproach", arg |-> raw, val |-> MakeApproach(raw)]
    /\ UNCHANGED <<entities, built, indexes, lim, gen, gen2, loader>>

NextEntities ==
    \/ Construct
    \/ Drop
    \/ NewNearEarthObject
    \/ NewCloseApproach

SpecEntities == Init /\ [][NextEntities]_vars

\* C23: constructing a CloseApproach with a negative distance or a negative
\* velocity fails with a validation error, the error of a distance or
\* velocity that is not a number; no CloseApproach with distance < 0 or
\* velocity < 0 exists.
C23_NegativeApproachRejected ==
    /\ ret.op = "CloseApproach" =>
          /\ (ret.arg.distance < 0 \/ ret.arg.velocity < 0) => ret.val.err = "ValueError"
          /\ ret.val.err = "" => ret.val.distance >= 0 /\ ret.val.velocity >= 0
    /\ \A a \in ApproachIds : approaches[a].distance >= 0 /\ approaches[a].velocity >= 0


\* The constructor was given a designation that is empty or only whitespace.
BlankDesignation == strip(ret.arg.designation) = <<>>

\* C24: constructing a NearEarthObject or a CloseApproach with an empty or
\* whitespace-only designation fails with a validation error; on success the
\* stored designation is the input trimmed and upper-cased, so an object and
\* an approach whose input designations differ only in case or surrounding
\* whitespace are linked to each other.
C24_DesignationNormalizedAndLinked ==
    /\ ret.op \in {"NearEarthObject", "CloseApproach"} =>
          /\ BlankDesignation => ret.val.err = "ValueError"
          /\ ret.val.err = "" => ret.val.designation = upper(strip(ret.arg.designation))
    /\ built =>
          \A a \in ApproachIds : \A j \in NeoIds :
              neos[j].designation = approaches[a].designation =>
                  approaches[a].neo = j /\ a \in Range(neos[j].approaches)

\* The same when no two input objects have the same designation.
DesignationNormalizedAndLinkedOnDistinctDesignations ==
    ~HasDuplicateDesignation =>
        /\ ret.op \in {"NearEarthObject", "CloseApproach"} =>
              /\ BlankDesignation => ret.val.err = "ValueError"
              /\ ret.val.err = "" => ret.val.designation = upper(strip(ret.arg.designation))
        /\ built =>
              \A a \in ApproachIds : \A j \in NeoIds :
                  neos[j].designation = approaches[a].designation =>
                      approaches[a].neo = j /\ a \in Range(neos[j].approaches)

\* C25: after constructing a NearEarthObject its name is absent or a
\* non-empty string without leading or trailing whitespace: a name given as
\* the empty string or as whitespace only is stored as absent, never as an
\* empty string, and such an object is not in the name index and not counted
\* as named.
C25_NameAbsentOrTrimmed ==
    /\ (ret.op = "NearEarthObject" /\ ret.val.err = "") =>
          \/ ret.val.name = None
          \/ Val(ret.val.name) # <<>> /\ strip(Val(ret.val.name)) = Val(ret.val.name)
    /\ \A j \in NeoIds :
          \/ neos[j].name = None
          \/ Val(neos[j].name) # <<>> /\ strip(Val(neos[j].name)) = Val(neos[j].name)
    /\ built =>
          /\ \A i \in 1..Len(name_to_neo) : name_to_neo[i].k # <<>>
          /\ stats.named_neos = Cardinality({j \in NeoIds : neos[j].name # None})

\* The same for every name but the empty string.
NameAbsentOrTrimmedUnlessEmpty ==
    (ret.op = "NearEarthObject" /\ ret.val.err = "" /\ ret.arg.name # Some(<<>>)) =>
        \/ ret.val.name = None
        \/ Val(ret.val.name) # <<>> /\ strip(Val(ret.val.name)) = Val(ret.val.name)

---------------------------------------------------------------------------
\* The last object in input order that has the same name as object j.
LastNamedLike(j) ==
    SetMax({k \in NeoIds : Named(k) /\ NameOf(k) = NameOf(j)})

\* C26: when several input objects have exactly the same name, the name
\* index maps the name to the last of them in input order, and get_by_name
\* with that exact name returns the last one, for every input order.
C26_LastNameWins ==
    built =>
        \A j \in NeoIds : Named(j) =>
            /\ DictGet(name_to_neo, NameOf(j), 0) = LastNamedLike(j)
            /\ (ret.op = "get_neo_by_name" /\ strip(ret.arg) = NameOf(j))
                  => ret.val = LastNamedLike(j)

\* get_by_name has returned the second of two objects of one name.
C26_Witness ==
    /\ ret.op = "get_neo_by_name"
    /\ \E i, j \in NeoIds :
          /\ i < j /\ Named(i) /\ Named(j) /\ NameOf(i) = NameOf(j)
          /\ neos[i] # neos[j]
          /\ strip(ret.arg) = NameOf(j)
          /\ ret.val = j

---------------------------------------------------------------------------
---------------------------------------------------------------------------
\* A second NEODatabase over the same entity objects.

\* The number of databases constructed over one pair of collections.
MaxConstructions == 2

\* NEODatabase(neos, approaches) once more, with the lists and the entity
\* objects of the first database: the new database has indexes of its own,
\* the entities are the ones the first construction linked.
ConstructAgain ==
    /\ built
    /\ \A j \in NeoIds : \A a \in ApproachIds :
          Occurrences(neos[j].approaches, a) < MaxConstructions
    /\ LET index == BuildDesignationIndex(neos, Len(neos))
           linked == _link_data([index |-> index, neos |-> neos,
                                 approaches |-> approaches,
                                 hazardous |-> <<>>, diameter |-> <<>>],
                                Len(approaches))
       IN  /\ designation_to_neo' = index
           /\ name_to_neo' = BuildNameIndex(neos, Len(neos))
           /\ date_index' = BuildDateIndex(approaches, Len(approaches))
           /\ neos' = linked.neos
           /\ approaches' = linked.approaches
           /\ hazardous_index' = linked.hazardous
           /\ diameter_range_index' = linked.diameter
           /\ stats' = _compute_statistics(linked.neos, linked.approaches)
    /\ ret' = [op |-> "__init__", arg |-> <<>>, val |-> 1]
    /\ UNCHANGED <<built, gen, lim, gen2, loader>>

NextRebuild ==
    \/ Construct
    \/ ConstructAgain
    \/ GetNeoByDesignation
    \/ GetNeoByName

SpecRebuild == Init /\ [][NextRebuild]_vars

\* C29: linking is idempotent across constructions: after a second database
\* is built from the same object and approach collections, every object's
\* approaches hold each of its approaches exactly once, and every approach's
\* neo is what the first construction set.
C29_RelinkingIdempotent ==
    /\ [](built =>
            \A j \in NeoIds : \A a \in ApproachIds :
                Occurrences(neos[j].approaches, a)
                    = (IF approaches[a].neo = j THEN 1 ELSE 0))
    /\ [][built => \A a \in ApproachIds : approaches'[a].neo = approaches[a].neo]_vars

---------------------------------------------------------------------------
\* C30: results handed out by the database are isolated from its state:
\* after the caller adds to or removes from the collection returned by
\* get_all_neos, get_all_approaches, query_by_date or query_hazardous, a
\* later call of the same operation with the same argument returns what it
\* returned before the change.
C30_ResultsIsolated ==
    (/\ ret.op \in {"get_all_neos", "get_all_approaches", "query_by_date", "query_hazardous"}
     /\ ret.before # None)
    => ret.val = Val(ret.before)

\* The same for the two operations that return a copy.
CopiesIsolated ==
    (ret.op \in {"get_all_neos", "get_all_approaches"} /\ ret.before # None)
    => ret.val = Val(ret.before)

\* get_all_approaches has been called again after the caller removed an
\* item from the list of the call before.
CopiesIsolatedWitness ==
    /\ ret.op = "get_all_approaches" /\ ret.before # None /\ ret.val # <<>>

---------------------------------------------------------------------------
\* DataLoader (data/loader.py): the rows of the two files, one at a time.

\* The rows of each file that the loader reads.
MaxRows == 2

\* The rows of the NEO file.  pdes is None where the row has no such column
\* (row.get answers None and .strip() raises); diameter is None where the
\* text is empty or not a float, else the float.
NeoRows ==
    { [pdes |-> Some(<<"a">>), name |-> <<"x", "y">>, diameter |-> Some(1), pha |-> <<"Y">>],
      [pdes |-> Some(<<" ", "b">>), name |-> <<>>, diameter |-> None, pha |-> <<"N">>],
      [pdes |-> Some(<<"c">>), name |-> <<" ">>, diameter |-> Some(-1), pha |-> <<"y", " ">>],
      [pdes |-> Some(<<" ">>), name |-> <<"x">>, diameter |-> Some(1), pha |-> <<"N">>],
      [pdes |-> None, name |-> <<"x">>, diameter |-> Some(1), pha |-> <<"N">>] }

\* The rows of the close-approach file.  short: the row has fewer than four
\* fields; time is None where the text is not in the NASA format; distance
\* and velocity are None where the text is not a float.
ApproachRows ==
    { [short |-> FALSE, des |-> <<"a">>, time |-> Some(<<1, 0>>),
       distance |-> Some(1), velocity |-> Some(2)],
      [short |-> FALSE, des |-> <<" ", "b">>, time |-> Some(<<2, 0>>),
       distance |-> Some(0), velocity |-> Some(1)],
      [short |-> FALSE, des |-> <<"a">>, time |-> None,
       distance |-> Some(1), velocity |-> Some(2)],
      [short |-> FALSE, des |-> <<"a">>, time |-> Some(<<1, 0>>),
       distance |-> Some(-1), velocity |-> Some(2)],
      [short |-> FALSE, des |-> <<"a">>, time |-> Some(<<1, 0>>),
       distance |-> Some(1), velocity |-> None],
      [short |-> TRUE, des |-> <<"c">>, time |-> None,
       distance |-> None, velocity |-> None] }

\* DataLoader._validate_neo: DataValidationError or nothing.
_validate_neo(neo) ==
    IF neo.designation = <<>> THEN Raises
    ELSE IF neo.diameter # None /\ FloatLt(Val(neo.diameter), 0) THEN Raises
    ELSE Returns(TRUE)

\* DataLoader._validate_approach
_validate_approach(approach) ==
    IF approach.designation = <<>> THEN Raises
    ELSE IF approach.distance < 0 \/ approach.velocity < 0 THEN Raises
    ELSE Returns(TRUE)

\* DataLoader._parse_neo_row: the object, or None for a row it gives up on.
\* The whole body is in a try whose `except Exception` returns None, so no
\* exception leaves it.
_parse_neo_row(row, validate_data) ==
    IF row.pdes = None THEN Returns(None)
    ELSE IF strip(Val(row.pdes)) = <<>> THEN Returns(None)
    ELSE LET name == IF strip(row.name) = <<>> THEN None ELSE Some(strip(row.name))
             diameter == IF row.diameter = None THEN None
                         ELSE IF FloatLt(Val(row.diameter), 0) \/ isnan(Val(row.diameter))
                         THEN None
                         ELSE row.diameter
             hazardous == upper(strip(row.pha)) = <<"Y">>
             neo == NearEarthObject(strip(Val(row.pdes)), name, diameter, hazardous)
         IN  IF neo.err # "" THEN Returns(None)
             ELSE IF validate_data /\ _validate_neo(neo).exc THEN Returns(None)
             ELSE Returns(Some(neo))

\* DataLoader._parse_approach_row, in a try/except of the same kind.
_parse_approach_row(row, validate_data) ==
    IF row.short THEN Returns(None)
    ELSE IF strip(row.des) = <<>> THEN Returns(None)
    ELSE IF row.time = None THEN Returns(None)
    ELSE IF row.distance = None THEN Returns(None)
    ELSE IF Val(row.distance) < 0 \/ isnan(Val(row.distance)) THEN Returns(None)
    ELSE IF row.velocity = None THEN Returns(None)
    ELSE IF Val(row.velocity) < 0 \/ isnan(Val(row.velocity)) THEN Returns(None)
    ELSE LET approach == CloseApproach(strip(row.des), Val(row.time),
                                       Val(row.distance), Val(row.velocity))
         IN  IF approach.err # "" THEN Returns(None)
             ELSE IF validate_data /\ _validate_approach(approach).exc THEN Returns(None)
             ELSE Returns(Some(approach))

\* DataLoader(validate_data=True, strict_mode=...) about to read the NEO
\* file; nothing is loaded and no database exists.
InitLoad ==
    /\ neos = <<>>
    /\ approaches = <<>>
    /\ built = FALSE
    /\ designation_to_neo = <<>>
    /\ name_to_neo = <<>>
    /\ date_index = <<>>
    /\ hazardous_index = <<>>
    /\ diameter_range_index = <<>>
    /\ stats = EmptyStats
    /\ gen = NoGen
    /\ lim = NoLim
    /\ gen2 = NoGen
    /\ \E strict_mode \in BOOLEAN :
         loader = [NoLoader EXCEPT !.strict_mode = strict_mode, !.status = "neos"]
    /\ ret = [op |-> "load", arg |-> <<>>, val |-> 0]

\* load_neos, one iteration of the loop over the rows of the file.
LoadNeoRow ==
    /\ loader.status = "neos"
    /\ loader.neo_rows < MaxRows
    /\ \E row \in NeoRows :
         LET r == _parse_neo_row(row, loader.validate_data)
         IN  IF r.exc
             THEN /\ loader' = [loader EXCEPT !.neo_rows = @ + 1,
                                   !.stats.parsing_errors = @ + 1,
                                   !.status = IF loader.strict_mode THEN "failed" ELSE @]
                  /\ neos' = neos
             ELSE IF r.v # None
             THEN /\ neos' = Append(neos, Val(r.v))
                  /\ loader' = [loader EXCEPT !.neo_rows = @ + 1,
                                              !.stats.neos_loaded = @ + 1]
             ELSE /\ neos' = neos
                  /\ loader' = [loader EXCEPT !.neo_rows = @ + 1]
    /\ ret' = [op |-> "load_neos", arg |-> <<>>, val |-> 0]
    /\ UNCHANGED <<approaches, built, indexes, gen, lim, gen2>>

\* load_neos returns its list; load_approaches opens the other file.
EndOfNeoFile ==
    /\ loader.status = "neos"
    /\ loader' = [loader EXCEPT !.status = "approaches"]
    /\ ret' = [op |-> "load_neos", arg |-> <<>>, val |-> 0]
    /\ UNCHANGED <<entities, built, indexes, gen, lim, gen2>>

\* load_approaches, one iteration of the loop over the rows of the file.
LoadApproachRow ==
    /\ loader.status = "approaches"
    /\ loader.approach_rows < MaxRows
    /\ \E row \in ApproachRows :
         LET r == _parse_approach_row(row, loader.validate_data)
         IN  IF r.exc
             THEN /\ loader' = [loader EXCEPT !.approach_rows = @ + 1,
                                   !.stats.parsing_errors = @ + 1,
                                   !.status = IF loader.strict_mode THEN "failed" ELSE @]
                  /\ approaches' = approaches
             ELSE IF r.v # None
             THEN /\ approaches' = Append(approaches, Val(r.v))
                  /\ loader' = [loader EXCEPT !.approach_rows = @ + 1,
                                              !.stats.approaches_loaded = @ + 1]
             ELSE /\ approaches' = approaches
                  /\ loader' = [loader EXCEPT !.approach_rows = @ + 1]
    /\ ret' = [op |-> "load_approaches", arg |-> <<>>, val |-> 0]
    /\ UNCHANGED <<neos, built, indexes, gen, lim, gen2>>

\* load_approaches returns its list.
EndOfApproachFile ==
    /\ loader.status = "approaches"
    /\ loader' = [loader EXCEPT !.status = "loaded"]
    /\ ret' = [op |-> "load_approaches", arg |-> <<>>, val |-> 0]
    /\ UNCHANGED <<entities, built, indexes, gen, lim, gen2>>

\* load_database: NEODatabase(neos, approaches) over the two lists.
LoadDatabase ==
    /\ loader.status = "loaded"
    /\ Construct

NextLoad ==
    \/ LoadNeoRow
    \/ EndOfNeoFile
    \/ LoadApproachRow
    \/ EndOfApproachFile
    \/ LoadDatabase

SpecLoad == InitLoad /\ [][NextLoad]_vars

\* The rows read so far that gave no entity.
BadRows ==
    (loader.neo_rows - loader.stats.neos_loaded)
        + (loader.approach_rows - loader.stats.approaches_loaded)

\* C27: with strict mode on, a NEO row or close-approach row that fails
\* parsing or validation makes the load fail with an error instead of being
\* skipped; with strict mode off the bad row is skipped, counted as a parsing
\* error in the loader statistics, and loading goes on with the other rows.
C27_StrictModeFailsOnBadRow ==
    loader.status # "none" =>
        /\ (loader.strict_mode /\ BadRows > 0) => loader.status = "failed"
        /\ ~loader.strict_mode =>
              /\ loader.status # "failed"
              /\ loader.stats.parsing_errors = BadRows

\* With strict mode off the bad rows are skipped and the load goes on.
BadRowsSkippedWhenNotStrict ==
    (loader.status # "none" /\ ~loader.strict_mode) =>
        /\ loader.status # "failed"
        /\ Len(neos) = loader.stats.neos_loaded
        /\ Len(approaches) = loader.stats.approaches_loaded

NextOps ==
    \/ Construct
    \/ Drop
    \/ EvaluateComposite
    \/ CreateCustomFilter
    \/ SearchNeos
    \/ GetClosestApproaches
    \/ GetFastestApproaches
    \/ GetRecentApproaches
    \/ QueryHazardous
    \/ QueryByDate
    \/ QueryByDateRange
    \/ QueryByDiameterRange

SpecOps == Init /\ [][NextOps]_vars

====
